---- MODULE Spec2Model ----
(***************************************************************************)
(* Wallet service: in-memory wallet store with optimistic locking, the     *)
(* transaction log and its reference generator, the idempotency cache,     *)
(* and the funding / transfer coordinators.                                *)
(*                                                                         *)
(* Money is counted in ten-millionths of a currency unit (Scale), so that   *)
(* amounts with more than two fractional digits, down to the ones a number *)
(* prints in exponent notation, can be written.  Every repository          *)
(* method is an async function without an inner await, so its body runs    *)
(* atomically; a caller is suspended at each `await`, and the model        *)
(* interleaves the callers at exactly those points.                        *)
(***************************************************************************)
EXTENDS Integers, Sequences, FiniteSets, TLC

\* ---------------------------------------------------------------- bounds
NProcs == 2            \* concurrent service calls
NHandles == 2          \* wallet objects held by direct callers of the store
MaxVersion == 3        \* direct store callers stop updating at this version
MaxTicks == 3          \* the clock is advanced this many times
MaxCounted == 4        \* the history counts attempts and conflicts up to this
MaxReferences == 1002  \* references generated in a run of the reference generator
MaxLog == 3            \* transactions a direct caller of the log appends

\* ------------------------------------------------------ program constants
MAX_RETRY_ATTEMPTS == 3
MAX_AMOUNT == 1000000
TTL_MS == 86400000     \* 24 * 60 * 60 * 1000

Scale == 10000000      \* one currency unit, in ten-millionths
Cent == Scale \div 100 \* a hundredth of the unit

Procs == 1..NProcs
Handles == 1..NHandles
WalletIds == {"w1", "w2", "w3"}     \* the ids uuidv4() hands out
InitialWallets == {"w1", "w2"}      \* created before the calls under study
InitialBalance == 100 * Cent
NullId == "null"                    \* sourceWalletId of a FUNDING transaction

VARIABLES
    wallets,     \* WalletRepository.wallets : id -> stored wallet (a Map)
    txLog,       \* TransactionRepository.transactions (append-only array)
    cache,       \* IdempotencyService.cache : hash -> record (a Map)
    pc,          \* position of each service call
    req,         \* arguments of each service call
    loc,         \* locals of each service call (fetched wallet objects, attempt)
    result,      \* what each service call returned or threw
    hist,        \* history of each call: store updates, appends, calls seen done
    nUpdates,    \* history: successful store updates per wallet id
    held,        \* wallet objects in the hands of direct store callers
    lastCall,    \* the last direct store call and what it returned
    won,         \* history: (id, expectedVersion) pairs whose update returned true
    now,         \* the clock (Date.now()), in milliseconds since the start
    timers,      \* pending setTimeout callbacks of the idempotency service
    heap,        \* wallet objects by reference (where object identity matters)
    stored,      \* WalletRepository.wallets by reference: id -> object (0: none)
    hand,        \* the objects a direct caller holds by reference, keyed by id
    transactionCounter,  \* TransactionService.transactionCounter
    issued,      \* history: the first and the last reference generated
    transactionIndex,  \* TransactionRepository.transactionIndex : id -> transaction
    nested,      \* the objects nested in transactions' metadata, by reference
    txHeld       \* the transaction object a direct caller of the log holds

vars == <<wallets, txLog, cache, pc, req, loc, result, hist, nUpdates,
          held, lastCall, won, now, timers, heap, stored, hand,
          transactionCounter, issued, transactionIndex, nested, txHeld>>

genVars == <<transactionCounter, issued>>
logVars == <<transactionIndex, nested, txHeld>>
svcVars == <<txLog, cache, timers, now, pc, req, loc, result, hist, genVars, logVars>>
objVars == <<heap, stored, hand>>
repoVars == <<held, lastCall, won, objVars, genVars, logVars>>

NoneIssued == [first |-> <<>>, last |-> <<>>]
NoTransaction == [id |-> "null"]    \* findById of an unknown id; nothing held
Undefined == "undefined"            \* a sort order or a property that is not given
Unset == 0 - 1                      \* a limit or an offset that is not given

\* ----------------------------------------------------------- Map helpers
MapSet(m, k, v) == [x \in (DOMAIN m) \cup {k} |-> IF x = k THEN v ELSE m[x]]
MapHas(m, k) == k \in DOMAIN m

\* ---------------------------------------------------------- Wallet entity
validateBalanceSkipped(balance) == TRUE
validateBalance(balance) == balance >= 0

\* new Wallet(id, currency, balance): version starts at 1
Wallet(id, balance) == [id |-> id, balance |-> balance, version |-> 1]

hasSufficientBalanceSkipped(w, amount) == TRUE
hasSufficientBalance(w, amount) == w.balance >= amount

fund(w, amount) == [w EXCEPT !.balance = @ + amount, !.version = @ + 1]

deduct(w, amount) == [w EXCEPT !.balance = @ - amount, !.version = @ + 1]

\* ------------------------------------------------------ WalletRepository
cloneWallet(w) == [Wallet(w.id, w.balance) EXCEPT !.version = w.version]

\* create: TRUE when the id is free (otherwise WalletAlreadyExistsError)
createOk(ws, w) == ~MapHas(ws, w.id)
create(ws, w) == IF createOk(ws, w) THEN MapSet(ws, w.id, cloneWallet(w)) ELSE ws

findById(ws, id) == IF MapHas(ws, id) THEN <<cloneWallet(ws[id])>> ELSE <<>>

RECURSIVE findByIdsLoop(_, _, _, _)
findByIdsLoop(ws, ids, i, res) ==
    IF i > Len(ids) THEN res
    ELSE findByIdsLoop(ws, ids, i + 1,
             IF MapHas(ws, ids[i]) THEN MapSet(res, ids[i], cloneWallet(ws[ids[i]]))
             ELSE res)

\* findByIds handing back the first requested id only
findByIdsFirstOnly(ws, ids) ==
    findByIdsLoop(ws, SubSeq(ids, 1, IF Len(ids) > 0 THEN 1 ELSE 0), 1, <<>>)
findByIds(ws, ids) == findByIdsLoop(ws, ids, 1, <<>>)

\* findAll: a clone of every stored wallet
findAll(ws) == [id \in DOMAIN ws |-> cloneWallet(ws[id])]

\* delete: the boolean it returns, and the store afterwards
deleteReturns(ws, id) == MapHas(ws, id)
delete(ws, id) == [x \in DOMAIN ws \ {id} |-> ws[x]]

\* update: the boolean it returns
updateNoVersionCheck(ws, w, expectedVersion) == MapHas(ws, w.id)
updateReturns(ws, w, expectedVersion) ==
    /\ MapHas(ws, w.id)
    /\ ws[w.id].version = expectedVersion

\* update: the version it writes into the caller's object and the store
updateKeepsVersion(expectedVersion) == expectedVersion
updateVersion(expectedVersion) == expectedVersion + 1

\* update: the store afterwards (cloneWallet runs the Wallet constructor, which
\* throws on a negative balance before anything is stored)
updateStoresWhenRejected(ws, w, expectedVersion) ==
    IF MapHas(ws, w.id) /\ validateBalance(w.balance)
    THEN MapSet(ws, w.id,
                cloneWallet([w EXCEPT !.version = updateVersion(expectedVersion)]))
    ELSE ws
update(ws, w, expectedVersion) ==
    IF updateReturns(ws, w, expectedVersion) /\ validateBalance(w.balance)
    THEN MapSet(ws, w.id,
                cloneWallet([w EXCEPT !.version = updateVersion(expectedVersion)]))
    ELSE ws

\* update: the caller's wallet object afterwards (same object, mutated in place)
updateCaller(ws, w, expectedVersion) ==
    IF updateReturns(ws, w, expectedVersion)
    THEN [w EXCEPT !.version = updateVersion(expectedVersion)]
    ELSE w

\* ======================================================================
\* Direct callers of the store (as the repository unit tests drive it).
\* A caller holds wallet objects, changes their balance and hands them to
\* update with an expected version of its choice.
\* ======================================================================
RepoIds == {"w1", "w2"}
RepoBalances == {100 * Cent, 150 * Cent}

NoCall == [op |-> "none", h |-> 0, ret |-> FALSE]

RepoInit ==
    /\ wallets = <<>>
    /\ txLog = <<>>
    /\ cache = <<>>
    /\ pc = [p \in Procs |-> "idle"]
    /\ req = [p \in Procs |-> <<>>]
    /\ loc = [p \in Procs |-> <<>>]
    /\ result = [p \in Procs |-> <<>>]
    /\ hist = [p \in Procs |-> <<>>]
    /\ nUpdates = [id \in WalletIds |-> 0]
    /\ held = [h \in Handles |-> Wallet("w1", InitialBalance)]
    /\ lastCall = NoCall
    /\ won = {}
    /\ now = 0
    /\ timers = {}
    /\ transactionCounter = 0 /\ issued = NoneIssued
    /\ transactionIndex = <<>> /\ nested = <<>> /\ txHeld = NoTransaction
    /\ heap = <<>> /\ stored = <<>> /\ hand = <<>>

\* const wallet = new Wallet(id, USD, balance); await repository.create(wallet)
Repo_create(h, id, balance) ==
    /\ validateBalance(balance)
    /\ wallets' = create(wallets, Wallet(id, balance))
    /\ held' = [held EXCEPT ![h] = Wallet(id, balance)]
    /\ lastCall' = [op |-> "create", h |-> h, ret |-> createOk(wallets, Wallet(id, balance))]
    /\ UNCHANGED <<won, nUpdates, svcVars, objVars>>

\* const wallet = await repository.findById(id)
Repo_findById(h, id) ==
    /\ held' = [held EXCEPT ![h] = IF findById(wallets, id) = <<>> THEN @
                                   ELSE findById(wallets, id)[1]]
    /\ lastCall' = [op |-> "findById", h |-> h, ret |-> findById(wallets, id) # <<>>]
    /\ UNCHANGED <<wallets, won, nUpdates, svcVars, objVars>>

\* wallet.balance = balance
Caller_setBalance(h, balance) ==
    /\ held[h].balance # balance
    /\ held' = [held EXCEPT ![h].balance = balance]
    /\ lastCall' = [op |-> "setBalance", h |-> h, ret |-> TRUE]
    /\ UNCHANGED <<wallets, won, nUpdates, svcVars, objVars>>

\* await repository.update(wallet, expectedVersion)
Repo_update(h, expectedVersion) ==
    /\ wallets' = update(wallets, held[h], expectedVersion)
    /\ held' = [held EXCEPT ![h] = updateCaller(wallets, held[h], expectedVersion)]
    /\ lastCall' = [op |-> "update", h |-> h,
                    ret |-> updateReturns(wallets, held[h], expectedVersion)]
    /\ won' = IF updateReturns(wallets, held[h], expectedVersion)
              THEN won \cup {<<held[h].id, expectedVersion>>} ELSE won
    /\ nUpdates' = IF updateReturns(wallets, held[h], expectedVersion)
                   THEN [nUpdates EXCEPT ![held[h].id] = @ + 1] ELSE nUpdates
    /\ UNCHANGED <<svcVars, objVars>>

RepoNext ==
    \/ \E h \in Handles, id \in RepoIds, b \in RepoBalances : Repo_create(h, id, b)
    \/ \E h \in Handles, id \in RepoIds : Repo_findById(h, id)
    \/ \E h \in Handles, b \in RepoBalances : Caller_setBalance(h, b)
    \/ \E h \in Handles, v \in 1..MaxVersion : Repo_update(h, v)

SpecRepo == RepoInit /\ [][RepoNext]_vars

C3_WitnessRejected ==
    /\ lastCall.op = "update"
    /\ ~lastCall.ret
    /\ held[lastCall.h].id \in DOMAIN wallets
    /\ wallets[held[lastCall.h].id].balance # held[lastCall.h].balance

\* ----------------------------------------------------------------------
\* C4: of the updates of one wallet issued with the same expected version
\* at most one returns true; every other returns false and leaves the
\* winner's balance stored.
C4_OneWinnerPerVersion ==
    [][\A h \in Handles, v \in 1..MaxVersion :
          Repo_update(h, v) =>
            /\ lastCall'.ret => <<held[h].id, v>> \notin won
            /\ <<held[h].id, v>> \in won =>
                  /\ ~lastCall'.ret
                  /\ wallets' = wallets]_vars

\* two callers read version 1; the first update won, the second lost
C4_Witness ==
    /\ lastCall.op = "update"
    /\ ~lastCall.ret
    /\ \E h \in Handles \ {lastCall.h} :
          /\ held[h].id = held[lastCall.h].id
          /\ held[lastCall.h].version = 1
          /\ held[h].version = 2
          /\ <<held[h].id, 1>> \in won
          /\ held[h].id \in DOMAIN wallets
          /\ wallets[held[h].id].balance = held[h].balance
          /\ wallets[held[h].id].balance # held[lastCall.h].balance

\* ======================================================================
\* The store with object identity.  A JavaScript Map holds references: had
\* the store kept the object a caller handed in, or handed out the object it
\* keeps, a later assignment to that object's fields would change the store.
\* heap maps a reference to the object's fields, stored and hand hold
\* references (0 for none), and wallets is what the Map's objects hold.
\* ======================================================================
RefIds == <<"w1", "w2">>                 \* the wallet ids of the direct caller
RefIdSet == {RefIds[i] : i \in 1..Len(RefIds)}
RefBalances == {100 * Cent, 150 * Cent}
RefVersions == 1..2                      \* versions a caller assigns or expects
RefHandles == {1}                        \* one caller, holding up to two objects
RefIdLists == {<<>>} \cup {<<a>> : a \in RefIdSet}
                 \cup {<<a, b>> : a \in RefIdSet, b \in RefIdSet}

\* every place that can hold a reference has a cell of its own for the
\* object made for it: the store's entry for an id, the caller's for an id
StoreCell(id) == CHOOSE i \in 1..Len(RefIds) : RefIds[i] = id
HandCell(h, id) == h * Len(RefIds) + StoreCell(id)
Refs == 1..(Len(RefIds) * (Cardinality(RefHandles) + 1))

NoObj == [id |-> "", balance |-> 0, version |-> 0]
NoBag == [id \in RefIdSet |-> 0]
Bag(id, r) == [NoBag EXCEPT ![id] = r]

\* the references the store holds, and those the callers hold
StoreRefs(st) == {st[id] : id \in RefIdSet} \ {0}
HandRefs(hd) == {hd[h].objs[id] : h \in RefHandles, id \in RefIdSet} \ {0}

\* where a new object goes: the cell of its place, or, when something else
\* still refers to the object in that cell, the first cell nothing refers to
NewIn(cell, others) ==
    IF cell \notin others THEN cell
    ELSE CHOOSE c \in Refs \ others : \A d \in Refs \ others : c <= d

\* what the Map's objects hold
StoreView(hp, st) == [id \in {x \in RefIdSet : st[x] # 0} |-> hp[st[id]]]

\* the next state; objects nothing refers to any more are dropped
Settle(hp, st, hd) ==
    /\ stored' = st
    /\ hand' = hd
    /\ heap' = [k \in Refs |-> IF k \in StoreRefs(st) \cup HandRefs(hd) THEN hp[k] ELSE NoObj]
    /\ wallets' = StoreView(hp, st)

\* cloneWallet(wallet): `new Wallet(...)` is an object of its own
cloneWalletSameObject(r, fresh) == r
cloneWalletRef(r, fresh) == fresh

RefInit ==
    /\ wallets = <<>>
    /\ txLog = <<>>
    /\ cache = <<>>
    /\ pc = [p \in Procs |-> "idle"]
    /\ req = [p \in Procs |-> <<>>]
    /\ loc = [p \in Procs |-> <<>>]
    /\ result = [p \in Procs |-> <<>>]
    /\ hist = [p \in Procs |-> <<>>]
    /\ nUpdates = [id \in WalletIds |-> 0]
    /\ held = [h \in Handles |-> Wallet("w1", InitialBalance)]
    /\ lastCall = [op |-> "none", h |-> 0, ret |-> FALSE, arg |-> <<>>]
    /\ won = {}
    /\ now = 0
    /\ timers = {}
    /\ transactionCounter = 0 /\ issued = NoneIssued
    /\ transactionIndex = <<>> /\ nested = <<>> /\ txHeld = NoTransaction
    /\ heap = [r \in Refs |-> NoObj]
    /\ stored = NoBag
    /\ hand = [h \in RefHandles |-> [from |-> "none", objs |-> NoBag]]

RefFrame == UNCHANGED <<held, won, nUpdates, svcVars>>

\* const wallet = new Wallet(id, Currency.USD, balance)
Ref_new(h, id, balance) ==
    /\ validateBalance(balance)
    /\ LET c == NewIn(HandCell(h, id), StoreRefs(stored))
       IN Settle([heap EXCEPT ![c] = Wallet(id, balance)], stored,
                 [hand EXCEPT ![h] = [from |-> "new", objs |-> Bag(id, c)]])
    /\ lastCall' = [op |-> "new", h |-> h, ret |-> TRUE, arg |-> <<>>]
    /\ RefFrame

\* await repository.create(wallet), the caller keeping the object it passed,
\* or const wallet = await repository.create(wallet), keeping the one returned
Ref_create(h, id, keepsReturned) ==
    /\ hand[h].objs[id] # 0
    /\ LET r == hand[h].objs[id]
           c1 == cloneWalletRef(r, NewIn(StoreCell(id), StoreRefs(stored) \cup HandRefs(hand)))
           c2 == cloneWalletRef(r, NewIn(HandCell(h, id), StoreRefs(stored) \cup {c1}))
           hp1 == [heap EXCEPT ![c1] = cloneWallet(heap[r])]
           hp2 == [hp1 EXCEPT ![c2] = cloneWallet(heap[r])]
       IN IF createOk(wallets, heap[r])
          THEN Settle(hp2, [stored EXCEPT ![id] = c1],
                      [hand EXCEPT ![h] =
                         IF keepsReturned
                         THEN [from |-> "create", objs |-> Bag(id, c2)]
                         ELSE [from |-> "passed", objs |-> Bag(id, r)]])
          ELSE Settle(heap, stored, hand)
    /\ lastCall' = [op |-> "create", h |-> h, arg |-> <<>>,
                    ret |-> createOk(wallets, heap[hand[h].objs[id]])]
    /\ RefFrame

\* the objects a read hands out: a clone of the stored object of every id found
clonesBag(h, st, found) ==
    [id \in RefIdSet |->
        IF id \in found THEN cloneWalletRef(st[id], NewIn(HandCell(h, id), StoreRefs(st)))
        ELSE 0]

clonesHeap(hp, h, st, found) ==
    [k \in Refs |->
        IF \E id \in found : clonesBag(h, st, found)[id] = k
        THEN cloneWallet(hp[st[CHOOSE id \in found : clonesBag(h, st, found)[id] = k]])
        ELSE hp[k]]

\* const wallet = await repository.findById(id)
Ref_findById(h, id) ==
    /\ Settle(clonesHeap(heap, h, stored,
                         IF findById(wallets, id) # <<>> THEN {id} ELSE {}),
              stored,
              [hand EXCEPT ![h] =
                 [from |-> "findById",
                  objs |-> clonesBag(h, stored,
                                     IF findById(wallets, id) # <<>> THEN {id} ELSE {})]])
    /\ lastCall' = [op |-> "findById", h |-> h, ret |-> findById(wallets, id) # <<>>,
                    arg |-> <<>>]
    /\ RefFrame

\* const wallets = await repository.findByIds(ids)
Ref_findByIds(h, ids) ==
    /\ Settle(clonesHeap(heap, h, stored, DOMAIN findByIds(wallets, ids)), stored,
              [hand EXCEPT ![h] =
                 [from |-> "findByIds",
                  objs |-> clonesBag(h, stored, DOMAIN findByIds(wallets, ids))]])
    /\ lastCall' = [op |-> "findByIds", h |-> h, ret |-> TRUE, arg |-> ids]
    /\ RefFrame

\* const wallets = await repository.findAll()
Ref_findAll(h) ==
    /\ Settle(clonesHeap(heap, h, stored, DOMAIN findAll(wallets)), stored,
              [hand EXCEPT ![h] =
                 [from |-> "findAll",
                  objs |-> clonesBag(h, stored, DOMAIN findAll(wallets))]])
    /\ lastCall' = [op |-> "findAll", h |-> h, ret |-> TRUE, arg |-> <<>>]
    /\ RefFrame

\* await repository.update(wallet, expectedVersion): the caller's object gets
\* its new version, the Map a clone of it
Ref_update(h, id, expectedVersion) ==
    /\ hand[h].objs[id] # 0
    /\ LET r == hand[h].objs[id]
           hp1 == [heap EXCEPT ![r] = updateCaller(wallets, heap[r], expectedVersion)]
           c == cloneWalletRef(r, NewIn(StoreCell(id),
                                        (StoreRefs(stored) \ {stored[id]}) \cup HandRefs(hand)))
       IN IF update(wallets, heap[r], expectedVersion) # wallets
          THEN Settle([hp1 EXCEPT ![c] = cloneWallet(hp1[r])],
                      [stored EXCEPT ![id] = c], hand)
          ELSE Settle(hp1, stored, hand)
    /\ lastCall' = [op |-> "update", h |-> h, arg |-> <<>>,
                    ret |-> updateReturns(wallets, heap[hand[h].objs[id]], expectedVersion)]
    /\ RefFrame

\* await repository.delete(id)
Ref_delete(id) ==
    /\ Settle(heap, [stored EXCEPT ![id] = 0], hand)
    /\ lastCall' = [op |-> "delete", h |-> 0, ret |-> deleteReturns(wallets, id),
                    arg |-> <<>>]
    /\ RefFrame

\* wallet.balance = balance, on an object the caller holds
Ref_setBalance(h, id, balance) ==
    /\ hand[h].objs[id] # 0
    /\ heap[hand[h].objs[id]].balance # balance
    /\ Settle([heap EXCEPT ![hand[h].objs[id]].balance = balance], stored, hand)
    /\ lastCall' = [op |-> "setBalance", h |-> h, ret |-> TRUE, arg |-> <<>>]
    /\ RefFrame

\* wallet.version = version
Ref_setVersion(h, id, version) ==
    /\ hand[h].objs[id] # 0
    /\ heap[hand[h].objs[id]].version # version
    /\ Settle([heap EXCEPT ![hand[h].objs[id]].version = version], stored, hand)
    /\ lastCall' = [op |-> "setVersion", h |-> h, ret |-> TRUE, arg |-> <<>>]
    /\ RefFrame

RefNext ==
    \/ \E h \in RefHandles, id \in RefIdSet, b \in RefBalances : Ref_new(h, id, b)
    \/ \E h \in RefHandles, id \in RefIdSet, k \in BOOLEAN : Ref_create(h, id, k)
    \/ \E h \in RefHandles, id \in RefIdSet : Ref_findById(h, id)
    \/ \E h \in RefHandles, ids \in RefIdLists : Ref_findByIds(h, ids)
    \/ \E h \in RefHandles : Ref_findAll(h)
    \/ \E h \in RefHandles, id \in RefIdSet, v \in RefVersions : Ref_update(h, id, v)
    \/ \E id \in RefIdSet : Ref_delete(id)
    \/ \E h \in RefHandles, id \in RefIdSet, b \in RefBalances : Ref_setBalance(h, id, b)
    \/ \E h \in RefHandles, id \in RefIdSet, v \in RefVersions : Ref_setVersion(h, id, v)

SpecRef == RefInit /\ [][RefNext]_vars

\* ======================================================================
\* Transaction entity, TransactionRepository, TransactionService
\* ======================================================================
\* new Transaction({...}): the constructor's two checks (it throws otherwise)
Transaction_validateAmount(amount) == amount > 0

validateTransactionType(type, sourceWalletId) ==
    /\ ~(type = "FUNDING" /\ sourceWalletId # NullId)
    /\ ~(type = "TRANSFER" /\ sourceWalletId = NullId)

Transaction(type, sourceWalletId, targetWalletId, amount) ==
    [type |-> type, sourceWalletId |-> sourceWalletId,
     targetWalletId |-> targetWalletId, amount |-> amount, status |-> "COMPLETED"]

\* TransactionRepository.create: push a clone onto the log
TransactionRepository_create(log, tx) == Append(log, tx)

\* ------------------------------------------- generateTransactionReference
\* a string is the sequence of its characters
DigitChars == <<"0", "1", "2", "3", "4", "5", "6", "7", "8", "9">>
UpperChars == <<"A", "B", "C", "D", "E", "F", "G", "H", "I", "J", "K", "L", "M",
                "N", "O", "P", "Q", "R", "S", "T", "U", "V", "W", "X", "Y", "Z">>
\* the characters of a reference in the order of their code units
CharOrder == <<"-">> \o DigitChars \o UpperChars
CharCode(c) == CHOOSE i \in 1..Len(CharOrder) : CharOrder[i] = c

\* String(n) for n >= 0
RECURSIVE String(_)
String(n) == IF n < 10 THEN <<DigitChars[n + 1]>>
             ELSE String(n \div 10) \o <<DigitChars[(n % 10) + 1]>>

\* s.padStart(width, '0')
RECURSIVE padStart(_, _)
padStart(s, width) == IF Len(s) >= width THEN s ELSE padStart(<<"0">> \o s, width)

\* new Date().toISOString().replace(/[-:T.Z]/g, '').substring(0, 14) for a
\* clock that read 2025-01-15T00:00:00.000Z at the start (t in milliseconds,
\* within January)
timestamp(t) ==
    String(2025) \o padStart(String(1), 2)
    \o padStart(String(15 + t \div 86400000), 2)
    \o padStart(String((t % 86400000) \div 3600000), 2)
    \o padStart(String((t % 3600000) \div 60000), 2)
    \o padStart(String((t % 60000) \div 1000), 2)

\* this.transactionCounter = (this.transactionCounter % 1000) + 1
nextCounter(c) == (c % 1000) + 1

\* Math.random().toString(36).substring(2, 6).toUpperCase(): four characters
\* for all but a few values of Math.random()
RandomParts == {<<"A", "7", "F", "3">>, <<"K", "2", "M", "9">>}

\* `TXN-${timestamp}-${counter}-${random}`, with the counter already advanced
generateTransactionReference(t, counter, random) ==
    <<"T", "X", "N", "-">> \o timestamp(t) \o <<"-">>
    \o padStart(String(counter), 3) \o <<"-">> \o random

createFundingTransactionWithSource(log, targetWalletId, amount) ==
    TransactionRepository_create(log,
        Transaction("FUNDING", targetWalletId, targetWalletId, amount))
createFundingTransaction(log, targetWalletId, amount) ==
    TransactionRepository_create(log, Transaction("FUNDING", NullId, targetWalletId, amount))

createTransferTransaction(log, sourceWalletId, targetWalletId, amount) ==
    TransactionRepository_create(log,
        Transaction("TRANSFER", sourceWalletId, targetWalletId, amount))

\* ======================================================================
\* IdempotencyService
\* ======================================================================
\* A request object is the sequence of its <<key, value>> properties in the
\* order the caller wrote them.
SortedKeys == <<"amount", "sourceWalletId", "targetWalletId", "walletId">>

RECURSIVE sortObjectKeysFrom(_, _)
sortObjectKeysFrom(obj, i) ==
    IF i > Len(SortedKeys) THEN <<>>
    ELSE SelectSeq(obj, LAMBDA kv : kv[1] = SortedKeys[i]) \o sortObjectKeysFrom(obj, i + 1)

\* Object.keys(obj).sort() and a rebuild in that order (the values here are
\* numbers and strings, which are returned as they are)
sortObjectKeys(obj) == sortObjectKeysFrom(obj, 1)

\* JSON.stringify of a flat object keeps the property order; SHA-256 is taken
\* as collision-free, so the digest is identified with the string it hashes:
\* `${idempotencyKey}|${operation}|${dataString}`
generateHash(idempotencyKey, operation, requestData) ==
    <<idempotencyKey, operation, sortObjectKeys(requestData)>>

requestDataMatches(data1, data2) == sortObjectKeys(data1) = sortObjectKeys(data2)

\* cacheResponse: the record stored under the hash ...
cacheResponse(c, hash, idempotencyKey, operation, requestData, response, t) ==
    MapSet(c, hash, [key |-> idempotencyKey, operation |-> operation, hash |-> hash,
                     requestData |-> requestData, response |-> response,
                     createdAt |-> t, expiresAt |-> t + TTL_MS])

\* ... and the callback it schedules (NODE_ENV is not 'test'):
\* setTimeout(() => this.cleanupExpired(idempotencyKey), this.TTL_MS)
scheduleCleanup(ts, idempotencyKey, t) ==
    ts \cup {[arg |-> idempotencyKey, due |-> t + TTL_MS]}

\* cache.get(x) with a client key x where a digest is expected: the cache is
\* keyed by SHA-256 digests of `${key}|${operation}|${data}`, and a client
\* key is taken to equal none of them
keyAsHash(idempotencyKey) == <<idempotencyKey>>

\* cleanupExpired(hash): delete the record under hash when it has expired
cleanupExpired(c, hash, t) ==
    IF MapHas(c, hash) /\ c[hash].expiresAt < t
    THEN [h \in DOMAIN c \ {hash} |-> c[h]]
    ELSE c

\* processWithIdempotency, lines 115-124: what the cache is once fn() has settled
cacheOnEveryOutcome(c, hash, idempotencyKey, operation, requestData, ok, response, t) ==
    cacheResponse(c, hash, idempotencyKey, operation, requestData, response, t)
cacheAfterOperation(c, hash, idempotencyKey, operation, requestData, ok, response, t) ==
    IF ok THEN cacheResponse(c, hash, idempotencyKey, operation, requestData, response, t)
    ELSE c

timersAfterOperation(ts, idempotencyKey, ok, t) ==
    IF ok THEN scheduleCleanup(ts, idempotencyKey, t) ELSE ts

\* processWithIdempotency, lines 94-111: "miss", "hit" or "duplicate"
cacheLookup(c, hash, requestData) ==
    IF ~MapHas(c, hash) THEN "miss"
    ELSE IF ~requestDataMatches(requestData, c[hash].requestData) THEN "duplicate"
    ELSE "hit"

\* ======================================================================
\* WalletService
\* ======================================================================
\* Number.prototype.toString: a non-zero number below 1e-6 in magnitude is
\* printed in exponent notation ("1e-7"), every other number of the model in
\* fixed notation with its trailing zeros dropped ("0.4", "40.005")
printsExponent(amount) == amount # 0 /\ amount < 10 /\ amount > 0 - 10

RECURSIVE fractionDigits(_, _)
fractionDigits(n, width) ==
    IF width = 0 \/ n % 10 # 0 THEN width ELSE fractionDigits(n \div 10, width - 1)

\* (amount.toString().split('.')[1] || '').length: the digits after the point
\* of the fixed notation; the exponent notation of a one-digit number has no
\* point
decimals(amount) ==
    IF printsExponent(amount) THEN 0 ELSE fractionDigits(amount, 7)

\* amount > MAX_AMOUNT
exceedsMaxAmount(amount) ==
    \/ amount \div Scale > MAX_AMOUNT
    \/ amount \div Scale = MAX_AMOUNT /\ amount % Scale # 0

\* validateAmount: TRUE when it does not throw InvalidTransactionAmountError
validateAmount(amount) ==
    /\ ~(amount <= 0)
    /\ ~exceedsMaxAmount(amount)
    /\ ~(decimals(amount) > 2)

\* Wallet.deduct throws (a plain Error) on these
deductThrows(w, amount) == amount <= 0 \/ amount > w.balance

mapToWalletResponse(w) == [id |-> w.id, balance |-> w.balance, version |-> w.version]

NoReq == [op |-> "none", key |-> "", source |-> "", target |-> "", amount |-> 0]
NoLoc == [attempt |-> 0, source |-> <<>>, target |-> <<>>,
          sourceOriginal |-> <<>>, targetOriginal |-> <<>>, tx |-> 0]
NoInfo == [id |-> "", required |-> 0, available |-> 0]
NoResult == [status |-> "none", wallets |-> <<>>, tx |-> 0, info |-> NoInfo]
NoHist == [updates |-> 0, appends |-> 0, executed |-> FALSE, after |-> {}, at |-> 0,
           attempts |-> 0, conflicts |-> 0, both |-> 0, rollbackRejected |-> FALSE,
           seen |-> <<>>]

Ok(ws, tx) == [status |-> "ok", wallets |-> ws, tx |-> tx, info |-> NoInfo]
Err(name, id, required, available) ==
    [status |-> name, wallets |-> <<>>, tx |-> 0,
     info |-> [id |-> id, required |-> required, available |-> available]]

\* the request object handed to processWithIdempotency, as the caller builds it
requestDataOf(r) ==
    IF r.op = "FUND_WALLET"
    THEN << <<"walletId", r.target>>, <<"amount", r.amount>> >>
    ELSE << <<"sourceWalletId", r.source>>, <<"targetWalletId", r.target>>,
            <<"amount", r.amount>> >>

hashOf(r) == generateHash(r.key, r.op, requestDataOf(r))

Init ==
    /\ wallets = [id \in InitialWallets |-> Wallet(id, InitialBalance)]
    /\ txLog = <<>>
    /\ cache = <<>>
    /\ pc = [p \in Procs |-> "idle"]
    /\ req = [p \in Procs |-> NoReq]
    /\ loc = [p \in Procs |-> NoLoc]
    /\ result = [p \in Procs |-> NoResult]
    /\ hist = [p \in Procs |-> NoHist]
    /\ nUpdates = [id \in WalletIds |-> 0]
    /\ held = [h \in Handles |-> Wallet("w1", InitialBalance)]
    /\ lastCall = NoCall
    /\ won = {}
    /\ now = 0
    /\ timers = {}
    /\ transactionCounter = 0 /\ issued = NoneIssued
    /\ transactionIndex = <<>> /\ nested = <<>> /\ txHeld = NoTransaction
    /\ heap = <<>> /\ stored = <<>> /\ hand = <<>>

\* the service calls of the run (Procs, or more of them under SpecIdem)
Calls == DOMAIN pc

\* calls are anonymous: call p enters after the calls below it
MayStart(p) ==
    /\ pc[p] = "idle"
    /\ \A q \in Calls : q < p => pc[q] # "idle"

Returned == {q \in Calls : pc[q] = "done"}

\* the call ends: it returns or throws res to its caller
Finish(p, res) ==
    /\ pc' = [pc EXCEPT ![p] = "done"]
    /\ result' = [result EXCEPT ![p] = res]
    /\ loc' = [loc EXCEPT ![p] = NoLoc]

\* the wrapped operation threw res: processWithIdempotency rethrows it
Throw(p, res) ==
    /\ Finish(p, res)
    /\ cache' = cacheAfterOperation(cache, hashOf(req[p]), req[p].key, req[p].op,
                                    requestDataOf(req[p]), FALSE, res, now)
    /\ timers' = timersAfterOperation(timers, req[p].key, FALSE, now)

\* history of a successful store update by call p on wallet id
NoteUpdate(p, id, ok) ==
    /\ hist' = [hist EXCEPT ![p].updates = IF ok THEN @ + 1 ELSE @]
    /\ nUpdates' = [nUpdates EXCEPT ![id] = IF ok THEN @ + 1 ELSE @]

\* one more, up to MaxCounted
Counted(n) == IF n < MaxCounted THEN n + 1 ELSE n

\* history of a step of a transfer attempt: its store update (accepted or
\* not), whether the attempt ended in ConcurrentModificationError, whether it
\* completed both updates, whether its rollback update was rejected
NoteStep(p, id, ok, conflict, both, rejected) ==
    /\ hist' = [hist EXCEPT ![p].updates = IF ok THEN @ + 1 ELSE @,
                            ![p].conflicts = IF conflict THEN Counted(@) ELSE @,
                            ![p].both = IF both THEN @ + 1 ELSE @,
                            ![p].rollbackRejected = @ \/ rejected]
    /\ nUpdates' = [nUpdates EXCEPT ![id] = IF ok THEN @ + 1 ELSE @]

\* history: the stored wallets of request r as an attempt's fetch finds them
SeenBy(ws, r) == [id \in {r.source, r.target} \cap DOMAIN ws |-> ws[id]]

\* ------------------------------------------------------------ createWallet
createWallet(p, initialBalance) ==
    /\ MayStart(p)
    /\ \E id \in WalletIds \ DOMAIN wallets :
         /\ req' = [req EXCEPT ![p] = [NoReq EXCEPT !.op = "CREATE_WALLET",
                                                   !.target = id,
                                                   !.amount = initialBalance]]
         /\ hist' = [hist EXCEPT ![p].after = Returned, ![p].at = now]
         /\ IF ~validateBalance(initialBalance)
            THEN /\ Finish(p, Err("Error", id, 0, 0))
                 /\ UNCHANGED wallets
            ELSE /\ wallets' = create(wallets, Wallet(id, initialBalance))
                 /\ Finish(p, Ok(<<mapToWalletResponse(Wallet(id, initialBalance))>>, 0))
    /\ UNCHANGED <<txLog, cache, timers, nUpdates, repoVars, now>>

\* -------------------------------------------- entry of an idempotent call
\* validation, the cache lookup and, on a miss, the first fetch of the
\* wrapped operation all run before the first await
Enter(p, r, precheck, fetched, next) ==
    /\ MayStart(p)
    /\ req' = [req EXCEPT ![p] = r]
    /\ UNCHANGED <<wallets, txLog, cache, timers, nUpdates, repoVars, now>>
    /\ IF precheck.status # "ok"
       THEN /\ Finish(p, precheck)
            /\ hist' = [hist EXCEPT ![p].after = Returned, ![p].at = now]
       ELSE LET look == cacheLookup(cache, hashOf(r), requestDataOf(r))
            IN IF look = "duplicate"
               THEN /\ Finish(p, Err("DuplicateTransactionError", "", 0, 0))
                    /\ hist' = [hist EXCEPT ![p].after = Returned, ![p].at = now]
               ELSE IF look = "hit"
               THEN /\ Finish(p, cache[hashOf(r)].response)
                    /\ hist' = [hist EXCEPT ![p].after = Returned, ![p].at = now]
               ELSE /\ pc' = [pc EXCEPT ![p] = next]
                    /\ loc' = [loc EXCEPT ![p] = fetched]
                    /\ hist' = [hist EXCEPT ![p].after = Returned, ![p].at = now,
                                            ![p].executed = TRUE, ![p].attempts = 1,
                                            ![p].seen = SeenBy(wallets, r)]
                    /\ UNCHANGED result

\* --------------------------------------------------------------- fundWallet
fundWallet(p, walletId, amount, key) ==
    Enter(p,
          [NoReq EXCEPT !.op = "FUND_WALLET", !.key = key, !.target = walletId,
                        !.amount = amount],
          IF validateAmount(amount) THEN Ok(<<>>, 0)
          ELSE Err("InvalidTransactionAmountError", "", 0, 0),
          [NoLoc EXCEPT !.attempt = 1, !.target = findById(wallets, walletId)],
          "fundFetched")

\* executeFunding, after getWalletOrThrow: fund in memory, versioned update
executeFunding_update(p) ==
    /\ pc[p] = "fundFetched"
    /\ UNCHANGED <<txLog, req, repoVars, now>>
    /\ IF loc[p].target = <<>>
       THEN /\ Throw(p, Err("WalletNotFoundError", req[p].target, 0, 0))
            /\ UNCHANGED <<wallets, hist, nUpdates>>
       ELSE LET w0 == loc[p].target[1]
                w == fund(w0, req[p].amount)
                ok == updateReturns(wallets, w, w0.version)
            IN /\ wallets' = update(wallets, w, w0.version)
               /\ NoteUpdate(p, w.id, ok)
               /\ IF ok
                  THEN /\ pc' = [pc EXCEPT ![p] = "fundUpdated"]
                       /\ loc' = [loc EXCEPT ![p].target =
                                     <<updateCaller(wallets, w, w0.version)>>]
                       /\ UNCHANGED <<cache, timers, result>>
                  ELSE Throw(p, Err("ConcurrentModificationError", w.id, 0, 0))

\* executeFunding, after the update: the FUNDING transaction
executeFunding_createTransaction(p) ==
    /\ pc[p] = "fundUpdated"
    /\ txLog' = createFundingTransaction(txLog, req[p].target, req[p].amount)
    /\ loc' = [loc EXCEPT ![p].tx = Len(txLog) + 1]
    /\ hist' = [hist EXCEPT ![p].appends = @ + 1]
    /\ pc' = [pc EXCEPT ![p] = "executed"]
    /\ transactionCounter' = nextCounter(transactionCounter)
    /\ UNCHANGED <<wallets, cache, timers, req, result, nUpdates, held, lastCall, won,
                   objVars, issued, logVars, now>>

\* ------------------------------------------------------------ transferFunds
fetchBoth(ws, r, attempt) ==
    LET found == findByIds(ws, <<r.source, r.target>>)
        get(id) == IF MapHas(found, id) THEN <<found[id]>> ELSE <<>>
    IN [NoLoc EXCEPT !.attempt = attempt, !.source = get(r.source),
                     !.target = get(r.target)]

\* transferFunds, before processWithIdempotency: validateAmount, then the
\* same-wallet test
transferPrecheckAmountOnly(sourceWalletId, targetWalletId, amount) ==
    IF ~validateAmount(amount)
    THEN Err("InvalidTransactionAmountError", "", 0, 0)
    ELSE Ok(<<>>, 0)
transferPrecheck(sourceWalletId, targetWalletId, amount) ==
    IF ~validateAmount(amount)
    THEN Err("InvalidTransactionAmountError", "", 0, 0)
    ELSE IF sourceWalletId = targetWalletId
    THEN Err("SameWalletTransferError", sourceWalletId, 0, 0)
    ELSE Ok(<<>>, 0)

transferFunds(p, sourceWalletId, targetWalletId, amount, key) ==
    LET r == [NoReq EXCEPT !.op = "TRANSFER_FUNDS", !.key = key,
                           !.source = sourceWalletId, !.target = targetWalletId,
                           !.amount = amount]
    IN Enter(p, r,
             transferPrecheck(sourceWalletId, targetWalletId, amount),
             fetchBoth(wallets, r, 1),
             "fetched")

\* executeTransferWithRetry, the catch: another attempt after the backoff
\* while attempt < MAX_RETRY_ATTEMPTS, otherwise the conflict goes to the caller
mayRetryOnceMore(attempt) == attempt <= MAX_RETRY_ATTEMPTS
mayRetry(attempt) == attempt < MAX_RETRY_ATTEMPTS

\* executeTransfer, the catch: the wallet objects of the attempt get back the
\* balance and version they were fetched with
restoreInMemory(l) ==
    [NoLoc EXCEPT !.attempt = l.attempt,
                  !.source = IF l.sourceOriginal # <<>> THEN l.sourceOriginal ELSE l.source,
                  !.target = IF l.targetOriginal # <<>> THEN l.targetOriginal ELSE l.target]

Conflict(p, id) ==
    IF mayRetry(loc[p].attempt)
    THEN /\ pc' = [pc EXCEPT ![p] = "backoff"]
         /\ loc' = [loc EXCEPT ![p] = restoreInMemory(loc[p])]
         /\ UNCHANGED <<cache, timers, result>>
    ELSE Throw(p, Err("ConcurrentModificationError", id, 0, 0))

\* executeTransfer, `if (!sourceWallet)` then `if (!targetWallet)`: the id the
\* WalletNotFoundError names, <<>> when both wallets were fetched
missingWalletTargetFirst(l, r) ==
    IF l.target = <<>> THEN <<r.target>>
    ELSE IF l.source = <<>> THEN <<r.source>>
    ELSE <<>>
missingWallet(l, r) ==
    IF l.source = <<>> THEN <<r.source>>
    ELSE IF l.target = <<>> THEN <<r.target>>
    ELSE <<>>

\* executeTransfer, phase 1 checks, then step 1: deduct from the source
executeTransfer_deductSource(p) ==
    /\ pc[p] = "fetched"
    /\ UNCHANGED <<txLog, req, repoVars, now>>
    /\ LET r == req[p] IN
       IF missingWallet(loc[p], r) # <<>>
       THEN /\ Throw(p, Err("WalletNotFoundError", missingWallet(loc[p], r)[1], 0, 0))
            /\ UNCHANGED <<wallets, hist, nUpdates>>
       ELSE IF ~hasSufficientBalance(loc[p].source[1], r.amount)
       THEN /\ Throw(p, Err("InsufficientBalanceError", r.source, r.amount,
                            loc[p].source[1].balance))
            /\ UNCHANGED <<wallets, hist, nUpdates>>
       ELSE IF deductThrows(loc[p].source[1], r.amount)
       THEN /\ Throw(p, Err("Error", r.source, 0, 0))
            /\ UNCHANGED <<wallets, hist, nUpdates>>
       ELSE LET s0 == loc[p].source[1]
                t0 == loc[p].target[1]
                sw == deduct(s0, r.amount)
                ok == updateReturns(wallets, sw, s0.version)
            IN /\ wallets' = update(wallets, sw, s0.version)
               /\ NoteStep(p, sw.id, ok, ~ok, FALSE, FALSE)
               /\ IF ok
                  THEN /\ pc' = [pc EXCEPT ![p] = "sourceUpdated"]
                       /\ loc' = [loc EXCEPT
                             ![p].source = <<updateCaller(wallets, sw, s0.version)>>,
                             ![p].sourceOriginal = <<s0>>,
                             ![p].targetOriginal = <<t0>>]
                       /\ UNCHANGED <<cache, timers, result>>
                  ELSE Conflict(p, r.source)

\* executeTransfer, `if (!targetUpdated)`: on to the transaction record, or
\* to the rollback of the source
afterCreditIgnoresResult(targetUpdated) == "targetUpdated"
afterCredit(targetUpdated) == IF targetUpdated THEN "targetUpdated" ELSE "rollback"

\* executeTransfer, step 2: credit the target
executeTransfer_creditTarget(p) ==
    /\ pc[p] = "sourceUpdated"
    /\ LET t0 == loc[p].targetOriginal[1]
           tw == fund(loc[p].target[1], req[p].amount)
           ok == updateReturns(wallets, tw, t0.version)
       IN /\ wallets' = update(wallets, tw, t0.version)
          /\ NoteStep(p, tw.id, ok, FALSE, ok, FALSE)
          /\ loc' = [loc EXCEPT ![p].target = <<updateCaller(wallets, tw, t0.version)>>]
          /\ pc' = [pc EXCEPT ![p] = afterCredit(ok)]
    /\ UNCHANGED <<txLog, cache, timers, req, result, repoVars, now>>

\* rollbackSourceWallet(sourceWallet, sourceOriginalBalance, sourceOriginalVersion + 1):
\* the boolean update returns is not looked at, and update does not throw;
\* executeTransfer then throws ConcurrentModificationError for the target
rollbackSourceWallet(p) ==
    /\ pc[p] = "rollback"
    /\ LET s0 == loc[p].sourceOriginal[1]
           currentVersion == s0.version + 1
           sw == [loc[p].source[1] EXCEPT !.balance = s0.balance,
                                          !.version = currentVersion]
       IN /\ wallets' = update(wallets, sw, currentVersion)
          /\ NoteStep(p, sw.id, updateReturns(wallets, sw, currentVersion), TRUE, FALSE,
                      ~updateReturns(wallets, sw, currentVersion))
    /\ Conflict(p, req[p].target)
    /\ UNCHANGED <<txLog, req, repoVars, now>>

\* executeTransfer, step 3: the TRANSFER transaction
executeTransfer_createTransaction(p) ==
    /\ pc[p] = "targetUpdated"
    /\ txLog' = createTransferTransaction(txLog, req[p].source, req[p].target,
                                          req[p].amount)
    /\ loc' = [loc EXCEPT ![p].tx = Len(txLog) + 1]
    /\ hist' = [hist EXCEPT ![p].appends = @ + 1]
    /\ pc' = [pc EXCEPT ![p] = "executed"]
    /\ transactionCounter' = nextCounter(transactionCounter)
    /\ UNCHANGED <<wallets, cache, timers, req, result, nUpdates, held, lastCall, won,
                   objVars, issued, logVars, now>>

\* the locals of the next attempt: attempt + 1, and the wallets executeTransfer
\* fetches at its start (l holds the objects of the attempt that failed)
retryReusesWallets(ws, r, l) == [l EXCEPT !.attempt = l.attempt + 1]
retryStaleSameAttempt(ws, r, l) == l
retryAttempt(ws, r, l) == fetchBoth(ws, r, l.attempt + 1)

\* executeTransferWithRetry(sourceWalletId, dto, attempt + 1) after sleep():
\* a new executeTransfer, which fetches both wallets again
executeTransferWithRetry_retry(p) ==
    /\ pc[p] = "backoff"
    /\ loc' = [loc EXCEPT ![p] = retryAttempt(wallets, req[p], loc[p])]
    /\ pc' = [pc EXCEPT ![p] = "fetched"]
    /\ hist' = [hist EXCEPT ![p].attempts = Counted(@),
                            ![p].seen = SeenBy(wallets, req[p])]
    /\ UNCHANGED <<wallets, txLog, cache, timers, req, result, nUpdates, repoVars, now>>

\* the response of the wrapped operation, built from its in-memory wallets
responseOf(r, l) ==
    IF r.op = "FUND_WALLET"
    THEN Ok(<<mapToWalletResponse(l.target[1])>>, 0)
    ELSE Ok(<<mapToWalletResponse(l.source[1]), mapToWalletResponse(l.target[1])>>, l.tx)

\* processWithIdempotency, after `await fn()` returned: cache, then return
processWithIdempotency_return(p) ==
    /\ pc[p] = "executed"
    /\ cache' = cacheAfterOperation(cache, hashOf(req[p]), req[p].key, req[p].op,
                                    requestDataOf(req[p]), TRUE, responseOf(req[p], loc[p]),
                                    now)
    /\ timers' = timersAfterOperation(timers, req[p].key, TRUE, now)
    /\ Finish(p, responseOf(req[p], loc[p]))
    /\ UNCHANGED <<wallets, txLog, req, hist, nUpdates, repoVars, now>>

\* ------------------------------------------------------------------ inputs
Keys == {"k1", "k2"}
UnknownId == "w0"                   \* an id no wallet was ever created with
RequestIds == WalletIds \cup {UnknownId}
Amounts == {40 * Cent, 60 * Cent}
BadAmounts == {0}
InitialBalances == {0, 0 - Cent}

TransferSteps(p) ==
    \/ executeTransfer_deductSource(p)
    \/ executeTransfer_creditTarget(p)
    \/ rollbackSourceWallet(p)
    \/ executeTransfer_createTransaction(p)
    \/ executeTransferWithRetry_retry(p)
    \/ processWithIdempotency_return(p)

Next ==
    \E p \in Procs :
       \/ \E b \in InitialBalances : createWallet(p, b)
       \/ \E w \in RequestIds, a \in Amounts \cup BadAmounts, k \in Keys :
             fundWallet(p, w, a, k)
       \/ \E s \in RequestIds, t \in RequestIds, a \in Amounts \cup BadAmounts, k \in Keys :
             transferFunds(p, s, t, a, k)
       \/ executeFunding_update(p)
       \/ executeFunding_createTransaction(p)
       \/ TransferSteps(p)

Spec == Init /\ [][Next]_vars

\* the steps of a call after its entry: continuations of awaits that have
\* resolved (store and transaction calls, the backoff sleep).  The event loop
\* runs every continuation that is ready, so each call's steps are weakly fair.
Steps(p) ==
    \/ executeFunding_update(p)
    \/ executeFunding_createTransaction(p)
    \/ TransferSteps(p)

SpecFair == Spec /\ \A p \in Procs : WF_vars(Steps(p))

\* transfers only, between the wallets that exist
NextTransfer ==
    \E p \in Procs :
       \/ \E s \in InitialWallets :
             \E t \in InitialWallets \ {s}, a \in Amounts, k \in Keys :
                transferFunds(p, s, t, a, k)
       \/ TransferSteps(p)

SpecTransfer == Init /\ [][NextTransfer]_vars

\* one more call than Spec, on fewer inputs: funding of w1 and transfers of
\* one amount from w1 to w2
IdemProcs == 1..(NProcs + 1)
IdemWallet == "w1"
IdemTarget == "w2"
IdemAmount == 60 * Cent

InitIdem ==
    /\ wallets = [id \in InitialWallets |-> Wallet(id, InitialBalance)]
    /\ txLog = <<>>
    /\ cache = <<>>
    /\ pc = [p \in IdemProcs |-> "idle"]
    /\ req = [p \in IdemProcs |-> NoReq]
    /\ loc = [p \in IdemProcs |-> NoLoc]
    /\ result = [p \in IdemProcs |-> NoResult]
    /\ hist = [p \in IdemProcs |-> NoHist]
    /\ nUpdates = [id \in WalletIds |-> 0]
    /\ held = [h \in Handles |-> Wallet("w1", InitialBalance)]
    /\ lastCall = NoCall
    /\ won = {}
    /\ now = 0
    /\ timers = {}
    /\ transactionCounter = 0 /\ issued = NoneIssued
    /\ transactionIndex = <<>> /\ nested = <<>> /\ txHeld = NoTransaction
    /\ heap = <<>> /\ stored = <<>> /\ hand = <<>>

NextIdem ==
    \E p \in IdemProcs :
       \/ \E a \in Amounts, k \in Keys : fundWallet(p, IdemWallet, a, k)
       \/ \E k \in Keys : transferFunds(p, IdemWallet, IdemTarget, IdemAmount, k)
       \/ executeFunding_update(p)
       \/ executeFunding_createTransaction(p)
       \/ TransferSteps(p)

SpecIdem == InitIdem /\ [][NextIdem]_vars

\* calls on the two initial wallets with amounts of every kind: valid, zero,
\* negative, three fractional digits (0.405), seven fractional digits (1e-7)
AmountInputs == {40 * Cent, 0, 0 - 40 * Cent, 40 * Cent + Cent \div 2, 1}

NextAmount ==
    \E p \in Procs :
       \/ \E w \in InitialWallets, a \in AmountInputs, k \in Keys : fundWallet(p, w, a, k)
       \/ \E s \in InitialWallets :
             \E t \in InitialWallets \ {s}, a \in AmountInputs, k \in Keys :
                transferFunds(p, s, t, a, k)
       \/ executeFunding_update(p)
       \/ executeFunding_createTransaction(p)
       \/ TransferSteps(p)

SpecAmount == Init /\ [][NextAmount]_vars

\* ------------------------------------------------------------------ time
\* the clock moves in steps of half the record lifetime
TickMs == TTL_MS \div 2

Tick ==
    /\ now < MaxTicks * TickMs
    /\ now' = now + TickMs
    /\ UNCHANGED <<wallets, txLog, cache, timers, pc, req, loc, result, hist,
                   nUpdates, repoVars>>

\* a callback scheduled by cacheResponse runs, at or after its due time:
\* cleanupExpired is handed the client key it was scheduled with
cleanupExpired_timer(arg, due) ==
    /\ [arg |-> arg, due |-> due] \in timers
    /\ due <= now
    /\ cache' = cleanupExpired(cache, keyAsHash(arg), now)
    /\ timers' = timers \ {[arg |-> arg, due |-> due]}
    /\ UNCHANGED <<wallets, txLog, pc, req, loc, result, hist, nUpdates, repoVars, now>>

TimerDues == {i * TickMs + TTL_MS : i \in 0..MaxTicks}

\* fundings of one wallet while the clock runs and the callbacks fire
NextExpiry ==
    \/ \E p \in Procs :
          \/ \E a \in Amounts, k \in Keys : fundWallet(p, IdemWallet, a, k)
          \/ executeFunding_update(p)
          \/ executeFunding_createTransaction(p)
          \/ processWithIdempotency_return(p)
    \/ Tick
    \/ \E k \in Keys, d \in TimerDues : cleanupExpired_timer(k, d)

SpecExpiry == Init /\ [][NextExpiry]_vars

\* ---------------------------------------------------- reference generator
\* direct calls of TransactionService.createFundingTransaction while the
\* clock runs: each generates a reference and appends a transaction
TransactionService_createFundingTransaction(targetWalletId, amount, random) ==
    /\ Len(txLog) < MaxReferences
    /\ transactionCounter' = nextCounter(transactionCounter)
    /\ issued' = [first |-> IF issued.first = <<>>
                            THEN generateTransactionReference(
                                     now, nextCounter(transactionCounter), random)
                            ELSE issued.first,
                  last |-> generateTransactionReference(
                               now, nextCounter(transactionCounter), random)]
    /\ txLog' = createFundingTransaction(txLog, targetWalletId, amount)
    /\ UNCHANGED <<wallets, cache, timers, now, pc, req, loc, result, hist, nUpdates,
                   held, lastCall, won, objVars, logVars>>

NextReference ==
    \/ \E random \in RandomParts :
          TransactionService_createFundingTransaction(IdemWallet, IdemAmount, random)
    \/ Tick

SpecReference == Init /\ [][NextReference]_vars

\* ======================================================================
\* TransactionRepository called directly: the log, the id index, the lists
\* ======================================================================
\* a transaction object with the fields the log's methods read; its metadata
\* is undefined or an object with one plain property and one nested object,
\* the nested object held by reference (a cell of `nested`)
Metadata(source, cell) == [source |-> source, details |-> cell]
NoMetadata == Metadata(Undefined, 0)    \* metadata: undefined

TransactionObject(id, type, sourceWalletId, targetWalletId, amount, createdAt, metadata) ==
    Transaction(type, sourceWalletId, targetWalletId, amount)
        @@ [id |-> id, createdAt |-> createdAt, metadata |-> metadata]

\* cloneTransaction at time t: `new Transaction({...})` copies the fields and
\* stamps createdAt anew; `{ ...metadata }` copies the plain properties and
\* keeps the reference to the nested object
cloneTransaction(tx, t) ==
    TransactionObject(tx.id, tx.type, tx.sourceWalletId, tx.targetWalletId, tx.amount,
                      t, IF tx.metadata = NoMetadata THEN NoMetadata
                         ELSE Metadata(tx.metadata.source, tx.metadata.details))

involvesWalletAsTarget(tx, walletId) == tx.targetWalletId = walletId
involvesWallet(tx, walletId) ==
    tx.sourceWalletId = walletId \/ tx.targetWalletId = walletId

\* Array.prototype.sort with (a, b) => b.createdAt - a.createdAt ('desc') or
\* a.createdAt - b.createdAt ('asc'): a stable sort
comesBefore(a, b, sortOrder) ==
    IF sortOrder = "desc" THEN a.createdAt > b.createdAt ELSE a.createdAt < b.createdAt

RECURSIVE sortInsert(_, _, _)
sortInsert(sorted, tx, sortOrder) ==
    IF sorted = <<>> THEN <<tx>>
    ELSE IF comesBefore(tx, Head(sorted), sortOrder) THEN <<tx>> \o sorted
    ELSE <<Head(sorted)>> \o sortInsert(Tail(sorted), tx, sortOrder)

RECURSIVE sort(_, _)
sort(list, sortOrder) ==
    IF list = <<>> THEN <<>>
    ELSE sortInsert(sort(SubSeq(list, 1, Len(list) - 1), sortOrder),
                    list[Len(list)], sortOrder)

\* list.slice(start, end) for 0 <= start; list.slice(start) is slice(list, start, Len(list))
sliceFromStart(list, start, end) == SubSeq(list, 1, IF end < Len(list) THEN end ELSE Len(list))
slice(list, start, end) ==
    SubSeq(list, start + 1, IF end < Len(list) THEN end ELSE Len(list))

clones(list, t) == [i \in 1..Len(list) |-> cloneTransaction(list[i], t)]

\* the defaults of the destructured options: offset = 0, sortOrder = 'desc'
offsetOr0(offset) == IF offset = Unset THEN 0 ELSE offset
sortOrderOrDesc(sortOrder) == IF sortOrder = Undefined THEN "desc" ELSE sortOrder

\* findByWalletId(walletId, { limit, offset, sortOrder }) at time t
TransactionRepository_findByWalletId(log, walletId, limit, offset, sortOrder, t) ==
    LET filtered == SelectSeq(log, LAMBDA tx : involvesWallet(tx, walletId))
        sorted == sort(filtered, sortOrderOrDesc(sortOrder))
        skipped == slice(sorted, offsetOr0(offset), Len(sorted))
    IN  clones(IF limit # Unset THEN slice(skipped, 0, limit) ELSE skipped, t)

\* findByType(type, { limit, offset }): `if (limit)` is false for undefined and 0
TransactionRepository_findByType(log, type, limit, offset, t) ==
    LET filtered == SelectSeq(log, LAMBDA tx : tx.type = type)
    IN  clones(IF limit # Unset /\ limit # 0
               THEN slice(filtered, offsetOr0(offset), offsetOr0(offset) + limit)
               ELSE filtered, t)

\* findAll({ limit, offset, sortOrder })
TransactionRepository_findAll(log, limit, offset, sortOrder, t) ==
    LET listed == IF sortOrderOrDesc(sortOrder) = "desc" THEN sort(log, "desc") ELSE log
    IN  clones(IF limit # Unset /\ limit # 0
               THEN slice(listed, offsetOr0(offset), offsetOr0(offset) + limit)
               ELSE listed, t)

countByWalletId(log, walletId) ==
    Len(SelectSeq(log, LAMBDA tx : involvesWallet(tx, walletId)))

TransactionRepository_findById(index, id, t) ==
    IF MapHas(index, id) THEN cloneTransaction(index[id], t) ELSE NoTransaction

\* the caller keeps the first object of a list it was returned
firstOf(list) == IF list = <<>> THEN NoTransaction ELSE list[1]

LogCall(op, arg, ret) == [op |-> op, h |-> 0, ret |-> ret, arg |-> arg]
LogFrame == UNCHANGED <<wallets, cache, timers, now, pc, req, loc, result, hist,
                        nUpdates, held, won, objVars, genVars>>

\* a caller builds a transaction (metadata with a nested object of its own,
\* or none) and passes it to create; it keeps the object it passed or the
\* one create returned
Log_create(id, type, sourceWalletId, targetWalletId, amount, withMetadata, keepsReturned) ==
    /\ Len(txLog) < MaxLog
    /\ Transaction_validateAmount(amount)
    /\ validateTransactionType(type, sourceWalletId)
    /\ LET cell == Len(txLog) + 1
           transaction == TransactionObject(id, type, sourceWalletId, targetWalletId, amount,
                              now, IF withMetadata THEN Metadata("bank", cell) ELSE NoMetadata)
           cloned == cloneTransaction(transaction, now)
       IN  /\ nested' = IF withMetadata THEN MapSet(nested, cell, "a") ELSE nested
           /\ txLog' = TransactionRepository_create(txLog, cloned)
           /\ transactionIndex' = MapSet(transactionIndex, id, cloned)
           /\ txHeld' = IF keepsReturned THEN cloneTransaction(cloned, now) ELSE transaction
           /\ lastCall' = LogCall("log.create", transaction, cloneTransaction(cloned, now))
    /\ LogFrame

Log_findById(id) ==
    /\ txHeld' = TransactionRepository_findById(transactionIndex, id, now)
    /\ lastCall' = LogCall("log.findById", id, txHeld')
    /\ UNCHANGED <<txLog, transactionIndex, nested>>
    /\ LogFrame

Log_findByWalletId(walletId, limit, offset, sortOrder) ==
    /\ lastCall' = LogCall("log.findByWalletId",
                       [walletId |-> walletId, limit |-> limit, offset |-> offset,
                        sortOrder |-> sortOrder],
                       TransactionRepository_findByWalletId(txLog, walletId, limit, offset,
                                                            sortOrder, now))
    /\ txHeld' = firstOf(lastCall'.ret)
    /\ UNCHANGED <<txLog, transactionIndex, nested>>
    /\ LogFrame

Log_findByType(type, limit, offset) ==
    /\ lastCall' = LogCall("log.findByType",
                       [type |-> type, limit |-> limit, offset |-> offset],
                       TransactionRepository_findByType(txLog, type, limit, offset, now))
    /\ txHeld' = firstOf(lastCall'.ret)
    /\ UNCHANGED <<txLog, transactionIndex, nested>>
    /\ LogFrame

Log_findAll(limit, offset, sortOrder) ==
    /\ lastCall' = LogCall("log.findAll",
                       [limit |-> limit, offset |-> offset, sortOrder |-> sortOrder],
                       TransactionRepository_findAll(txLog, limit, offset, sortOrder, now))
    /\ txHeld' = firstOf(lastCall'.ret)
    /\ UNCHANGED <<txLog, transactionIndex, nested>>
    /\ LogFrame

Log_countByWalletId(walletId) ==
    /\ lastCall' = LogCall("log.countByWalletId", walletId, countByWalletId(txLog, walletId))
    /\ txHeld' = NoTransaction
    /\ UNCHANGED <<txLog, transactionIndex, nested>>
    /\ LogFrame

\* the caller writes to the object it holds: a plain property of its
\* metadata, or a property of the object nested in it
Caller_setMetadataSource(value) ==
    /\ txHeld # NoTransaction /\ txHeld.metadata # NoMetadata
    /\ txHeld' = [txHeld EXCEPT !.metadata.source = value]
    /\ lastCall' = LogCall("caller.set", "metadata.source", value)
    /\ UNCHANGED <<txLog, transactionIndex, nested>>
    /\ LogFrame

Caller_setMetadataDetails(value) ==
    /\ txHeld # NoTransaction /\ txHeld.metadata # NoMetadata
    /\ nested' = [nested EXCEPT ![txHeld.metadata.details] = value]
    /\ lastCall' = LogCall("caller.set", "metadata.details", value)
    /\ UNCHANGED <<txLog, transactionIndex, txHeld>>
    /\ LogFrame

LogIds == {"t1", "t2"}
MetadataValues == {"a", "b"}

\* appends (ids chosen by the caller), lookups by id, and writes to the
\* objects the caller got
NextLogObjects ==
    \/ \E id \in LogIds, withMetadata \in BOOLEAN, keepsReturned \in BOOLEAN :
          Log_create(id, "FUNDING", NullId, IdemWallet, IdemAmount, withMetadata,
                     keepsReturned)
    \/ \E id \in LogIds : Log_findById(id)
    \/ Log_findByWalletId(IdemWallet, Unset, Unset, Undefined)
    \/ \E value \in MetadataValues : Caller_setMetadataSource(value)
    \/ \E value \in MetadataValues : Caller_setMetadataDetails(value)
    \/ Tick

SpecLogObjects == Init /\ [][NextLogObjects]_vars

\* appends with ids of the caller's own making (as uuidv4 hands them out) and
\* every list operation, with and without its options, while the clock runs
FreshIds == <<"t1", "t2", "t3", "t4">>
LogWallets == {IdemWallet, IdemTarget}
Limits == {Unset, 1, 5}
Offsets == {Unset, 1, 5}
SortOrders == {Undefined, "asc"}

NextLog ==
    \/ \E targetWalletId \in LogWallets :
          Log_create(FreshIds[Len(txLog) + 1], "FUNDING", NullId, targetWalletId,
                     IdemAmount, FALSE, TRUE)
    \/ Log_create(FreshIds[Len(txLog) + 1], "TRANSFER", IdemWallet, IdemTarget,
                  IdemAmount, FALSE, TRUE)
    \/ \E limit \in Limits, offset \in Offsets, sortOrder \in SortOrders :
          Log_findByWalletId(IdemWallet, limit, offset, sortOrder)
    \/ \E limit \in Limits, offset \in Offsets : Log_findByType("FUNDING", limit, offset)
    \/ \E limit \in Limits, offset \in Offsets, sortOrder \in SortOrders :
          Log_findAll(limit, offset, sortOrder)
    \/ Log_countByWalletId(IdemWallet)
    \/ Tick

SpecLog == Init /\ [][NextLog]_vars

\* ======================================================================
\* WalletRepository with the wallets' currency and timestamps
\* ======================================================================
\* new Wallet(id, currency, balance) at time t: createdAt = updatedAt = new Date()
WalletAt(id, currency, balance, t) ==
    Wallet(id, balance) @@ [currency |-> currency, createdAt |-> t, updatedAt |-> t]

\* cloneWallet at time t: the constructor stamps createdAt, updatedAt is copied
cloneWalletAt(w, t) ==
    cloneWallet(w) @@ [currency |-> w.currency, createdAt |-> t, updatedAt |-> w.updatedAt]

StampFrame == UNCHANGED <<txLog, cache, timers, now, pc, req, loc, result, hist,
                          nUpdates, won, objVars, genVars, logVars>>

\* create(new Wallet(id, currency, balance)); the caller keeps what it returns
Stamp_create(id, currency, balance) ==
    /\ createOk(wallets, [id |-> id])
    /\ wallets' = MapSet(wallets, id, cloneWalletAt(WalletAt(id, currency, balance, now), now))
    /\ held' = [held EXCEPT ![1] = cloneWalletAt(WalletAt(id, currency, balance, now), now)]
    /\ lastCall' = [op |-> "create", h |-> 1, ret |-> held'[1]]
    /\ StampFrame

Stamp_findById(id) ==
    /\ MapHas(wallets, id)
    /\ held' = [held EXCEPT ![1] = cloneWalletAt(wallets[id], now)]
    /\ lastCall' = [op |-> "findById", h |-> 1, ret |-> held'[1]]
    /\ UNCHANGED wallets
    /\ StampFrame

\* findAll: one clone per stored wallet
Stamp_findAll ==
    /\ lastCall' = [op |-> "findAll", h |-> 1,
                    ret |-> [id \in DOMAIN wallets |-> cloneWalletAt(wallets[id], now)]]
    /\ UNCHANGED <<wallets, held>>
    /\ StampFrame

\* the caller funds the wallet it holds and calls update(wallet, expectedVersion)
\* with the version it read: wallet.updatedAt = new Date(), the clone is stored
Stamp_update(amount) ==
    /\ "createdAt" \in DOMAIN held[1]
    /\ held[1].version < MaxVersion
    /\ LET funded == [held[1] EXCEPT !.balance = @ + amount]
           ok == updateReturns(wallets, funded, held[1].version)
           updated == [funded EXCEPT !.version = updateVersion(held[1].version),
                                     !.updatedAt = now]
       IN  /\ wallets' = IF ok THEN MapSet(wallets, funded.id, cloneWalletAt(updated, now))
                         ELSE wallets
           /\ held' = [held EXCEPT ![1] = IF ok THEN updated ELSE funded]
           /\ lastCall' = [op |-> "update", h |-> 1, ret |-> ok]
    /\ StampFrame

Currencies == {"USD"}                    \* enum Currency

NextStamps ==
    \/ \E id \in InitialWallets, currency \in Currencies : Stamp_create(id, currency, 0)
    \/ \E id \in InitialWallets : Stamp_findById(id)
    \/ Stamp_findAll
    \/ \E amount \in Amounts : Stamp_update(amount)
    \/ Tick

SpecStamps == RepoInit /\ [][NextStamps]_vars

\* ======================================================================
\* Claims about transfers
\* ======================================================================
RECURSIVE SumBalances(_, _)
SumBalances(ws, ids) ==
    IF ids = {} THEN 0
    ELSE LET id == CHOOSE x \in ids : TRUE
         IN ws[id].balance + SumBalances(ws, ids \ {id})

TotalBalance == SumBalances(wallets, DOMAIN wallets)

InFlight(p) == pc[p] \notin {"idle", "done"}
Quiescent == \A p \in Calls : ~InFlight(p)
AllReturned == \A p \in Calls : pc[p] = "done"

RECURSIVE SumAmounts(_)
SumAmounts(ps) ==
    IF ps = {} THEN 0
    ELSE LET q == CHOOSE x \in ps : TRUE
         IN req[q].amount + SumAmounts(ps \ {q})

\* ----------------------------------------------------------------------
\* C1: conservation. With transfers only, whenever no transfer is in flight
\* the stored balances add up to what they added up to initially.
C1_Conservation ==
    Quiescent => TotalBalance = Cardinality(InitialWallets) * InitialBalance

\* ----------------------------------------------------------------------
\* C2: concurrent transfer race. For transfers under distinct keys that all
\* deduct from the same source, the stored source balance is never negative
\* and, once all have returned, it is the initial balance minus the amounts
\* of the calls that returned success.
C2_SourceBalance ==
    (/\ \A p \in Calls : pc[p] # "idle" => req[p].source = "w1"
     /\ \A p, q \in Calls : p # q /\ pc[p] # "idle" /\ pc[q] # "idle"
                               => req[p].key # req[q].key)
    => /\ wallets["w1"].balance >= 0
       /\ AllReturned =>
            wallets["w1"].balance =
               InitialBalance - SumAmounts({p \in Calls : result[p].status = "ok"})

\* ======================================================================
\* Claims about versions and balances
\* ======================================================================
\* C5: monotonic versioning. Every stored wallet's version is 1 plus the
\* number of store updates of it that returned true (deductions, credits,
\* fundings and rollbacks alike); a rejected update leaves it as it was.
C5_MonotonicVersion ==
    \A id \in DOMAIN wallets : wallets[id].version = 1 + nUpdates[id]

\* a wallet updated three times while some call lost a version race
C5_Witness ==
    /\ \E id \in DOMAIN wallets : nUpdates[id] = 3 /\ wallets[id].version = 4
    /\ \E p \in Calls : loc[p].attempt >= 2

\* ----------------------------------------------------------------------
\* C6: under createWallet, fundWallet and transferFunds in any interleaving
\* every stored wallet has balance >= 0.
C6_NonNegativeBalance ==
    \A id \in DOMAIN wallets : wallets[id].balance >= 0

\* a wallet drained to zero, a transfer refused for want of funds, and a
\* wallet created by createWallet
C6_Witness ==
    /\ \E id \in DOMAIN wallets : wallets[id].balance = 0 /\ nUpdates[id] > 0
    /\ \E p \in Calls : result[p].status = "InsufficientBalanceError"

\* ======================================================================
\* Claims about idempotency
\* ======================================================================
Idempotent(p) == req[p].op \in {"FUND_WALLET", "TRANSFER_FUNDS"}

SameRequest(p, q) ==
    /\ req[p].op = req[q].op
    /\ req[p].key = req[q].key
    /\ req[p].source = req[q].source
    /\ req[p].target = req[q].target
    /\ req[p].amount = req[q].amount

\* the amount is valid and, for a transfer, source and target differ
PassedChecks(p) ==
    /\ req[p].amount > 0
    /\ ~exceedsMaxAmount(req[p].amount)
    /\ req[p].amount % Cent = 0
    /\ req[p].op = "TRANSFER_FUNDS" => req[p].source # req[p].target

\* ----------------------------------------------------------------------
\* C7: idempotent retry. A fundWallet or transferFunds call entered after a
\* call with the same key, operation and parameters returned success
\* returns that call's result and performs no store update and no
\* transaction append, whatever ran in between.
C7_IdempotentRetry ==
    \A p \in Calls : \A q \in hist[p].after :
        (Idempotent(p) /\ SameRequest(p, q) /\ result[q].status = "ok")
        => /\ pc[p] = "done"
           /\ result[p] = result[q]
           /\ ~hist[p].executed
           /\ hist[p].updates = 0
           /\ hist[p].appends = 0

\* ----------------------------------------------------------------------
\* C8: of the calls that carry the same key, operation and parameters, at
\* most one takes effect: one transaction appended, the wallet credited (or
\* the transfer applied) once.
C8_AtMostOnce ==
    \A p, q \in Calls :
        (p # q /\ Idempotent(p) /\ SameRequest(p, q))
        => /\ hist[p].appends + hist[q].appends <= 1
           /\ req[p].op = "FUND_WALLET" => hist[p].updates + hist[q].updates <= 1

\* ----------------------------------------------------------------------
\* C9: key-reuse detection. A call entered after a call with the same key
\* and operation but other parameters returned success fails with
\* DuplicateTransactionError and does not run the operation.
C9_KeyReuseRejected ==
    \A p \in Calls : \A q \in hist[p].after :
        (/\ Idempotent(p) /\ PassedChecks(p)
         /\ req[q].op = req[p].op /\ req[q].key = req[p].key
         /\ ~SameRequest(p, q)
         /\ result[q].status = "ok")
        => /\ result[p].status = "DuplicateTransactionError"
           /\ ~hist[p].executed
           /\ hist[p].updates = 0

\* ----------------------------------------------------------------------
\* C10: a failed operation is not cached. Every record in the cache is the
\* result of a call with that fingerprint that ran the operation and
\* returned success; and a call entered when no call with its key,
\* operation and parameters has returned success runs the operation.
C10_FailureNotCached ==
    /\ \A h \in DOMAIN cache :
          \E p \in Calls : /\ pc[p] = "done"
                           /\ result[p].status = "ok"
                           /\ hist[p].executed
                           /\ hashOf(req[p]) = h
                           /\ cache[h].response = result[p]
    /\ \A p \in Calls :
          (/\ Idempotent(p) /\ PassedChecks(p)
           /\ ~\E q \in hist[p].after : SameRequest(p, q) /\ result[q].status = "ok")
          => hist[p].executed

\* a funding that lost the version race threw and left no record; the same
\* request entered again ran the operation and succeeded
C10_Witness ==
    \E p, q \in Calls :
        /\ q \in hist[p].after /\ SameRequest(p, q)
        /\ result[q].status = "ConcurrentModificationError" /\ hist[q].executed
        /\ result[p].status = "ok" /\ hist[p].executed /\ hist[p].updates = 1
        /\ hashOf(req[p]) \in DOMAIN cache

\* ======================================================================
\* Claims about expiry, transfers and retries
\* ======================================================================
\* C11: expiry. A call entered when the record of its key, operation and
\* parameters is 24 hours old or older runs the operation as if there were
\* no record.  (The record in the cache is at least as recent as the one the
\* call found.)
C11_ExpiredRecordIgnored ==
    \A p \in Calls :
        (/\ pc[p] # "idle" /\ Idempotent(p) /\ PassedChecks(p)
         /\ MapHas(cache, hashOf(req[p]))
         /\ cache[hashOf(req[p])].createdAt + TTL_MS <= hist[p].at)
        => hist[p].executed

\* ----------------------------------------------------------------------
\* C12: atomicity of a failed transfer. With transfers only, once every call
\* has returned, each stored balance is the initial balance moved by the
\* transfers that ran and returned success, and by nothing else: a transfer
\* that ended in an error has left no trace.
Applied == {p \in Calls : result[p].status = "ok" /\ hist[p].executed}

C12_FailedTransferLeavesNoTrace ==
    Quiescent =>
      \A id \in DOMAIN wallets :
         wallets[id].balance =
            InitialBalance - SumAmounts({p \in Applied : req[p].source = id})
                           + SumAmounts({p \in Applied : req[p].target = id})

\* ----------------------------------------------------------------------
\* C13: a call whose compensating rollback update was rejected has ended, in
\* that very step, with a failure other than ConcurrentModificationError: it
\* is not waiting to retry and not running another attempt.
C13_RollbackRejectedIsCritical ==
    \A p \in Calls :
        hist[p].rollbackRejected
        => /\ pc[p] = "done"
           /\ result[p].status \notin {"ok", "ConcurrentModificationError"}

\* ----------------------------------------------------------------------
\* C14: when the store rejects the source update of a transfer attempt (the
\* attempt passed its checks and the stored source version is no longer the
\* fetched one), the step changes no stored wallet, appends no transaction,
\* caches nothing, and ends the attempt in ConcurrentModificationError: the
\* wrapper waits to retry or, attempts used up, throws it to the caller.
SourceRejected(p) ==
    /\ pc[p] = "fetched"
    /\ loc[p].source # <<>> /\ loc[p].target # <<>>
    /\ hasSufficientBalance(loc[p].source[1], req[p].amount)
    /\ ~(MapHas(wallets, req[p].source)
          /\ wallets[req[p].source].version = loc[p].source[1].version)

C14_SourceConflictChangesNothing ==
    [][\A p \in Procs :
          (SourceRejected(p) /\ executeTransfer_deductSource(p))
          => /\ wallets' = wallets
             /\ txLog' = txLog
             /\ cache' = cache
             /\ hist'[p].updates = hist[p].updates
             /\ hist'[p].conflicts = hist[p].conflicts + 1
             /\ \/ pc'[p] = "backoff"
                \/ /\ pc'[p] = "done"
                   /\ result'[p].status = "ConcurrentModificationError"]_vars

\* a first attempt that lost the race for the source: nothing updated by the
\* call, which waits to retry while the other call's deduction is stored
C14_Witness ==
    \E p \in Calls :
        /\ pc[p] = "backoff" /\ loc[p].attempt = 1
        /\ hist[p].updates = 0 /\ hist[p].conflicts = 1
        /\ wallets[req[p].source].version = 2
        /\ wallets[req[p].source].balance < InitialBalance
        /\ txLog = <<>>

\* ----------------------------------------------------------------------
\* C15: the TRANSFER transaction is recorded after both updates. Each call
\* has appended one transaction per attempt of its that completed the source
\* deduction and the target credit (less the attempt that has just completed
\* them and is about to append), and the TRANSFER transactions in the log are
\* those appends: a conflicted or rolled back attempt appends nothing.
NTransfers == Len(SelectSeq(txLog, LAMBDA tx : tx.type = "TRANSFER"))

TransferCalls == {p \in Calls : req[p].op = "TRANSFER_FUNDS"}

RECURSIVE SumAppends(_)
SumAppends(ps) ==
    IF ps = {} THEN 0
    ELSE LET q == CHOOSE x \in ps : TRUE
         IN hist[q].appends + SumAppends(ps \ {q})

C15_TransferRecordedAfterBothUpdates ==
    /\ \A p \in TransferCalls :
          hist[p].appends + (IF pc[p] = "targetUpdated" THEN 1 ELSE 0) = hist[p].both
    /\ NTransfers = SumAppends(TransferCalls)

\* one transfer recorded; the other call deducted, failed its credit, rolled
\* back and ended without a transaction
C15_Witness ==
    \E p, q \in TransferCalls :
        /\ pc[p] = "done" /\ hist[p].conflicts >= 1 /\ hist[p].updates >= 2
        /\ hist[p].both = 0 /\ hist[p].appends = 0
        /\ hist[q].both = 1 /\ hist[q].appends = 1
        /\ NTransfers = 1

\* ----------------------------------------------------------------------
\* C16: bounded retry. A transferFunds call starts at most
\* MAX_RETRY_ATTEMPTS attempts, and one more attempt than it has seen
\* conflicts at most: while an attempt runs, and after a success or any
\* other error, attempts = conflicts + 1 (the other error ended the call at
\* once); while it waits to retry, attempts = conflicts < MAX_RETRY_ATTEMPTS;
\* and the caller gets ConcurrentModificationError exactly when the third
\* attempt conflicted.
C16_BoundedRetry ==
    \A p \in TransferCalls :
        hist[p].executed =>
          /\ hist[p].attempts \in 1..MAX_RETRY_ATTEMPTS
          /\ pc[p] # "done" => loc[p].attempt = hist[p].attempts
          /\ IF pc[p] = "backoff"
             THEN hist[p].conflicts = hist[p].attempts
                  /\ hist[p].attempts < MAX_RETRY_ATTEMPTS
             ELSE IF pc[p] = "done" /\ result[p].status = "ConcurrentModificationError"
             THEN hist[p].conflicts = MAX_RETRY_ATTEMPTS
                  /\ hist[p].attempts = MAX_RETRY_ATTEMPTS
             ELSE hist[p].conflicts = hist[p].attempts - 1

\* a transfer whose three attempts all conflicted, and one that ended on
\* another error (or succeeded) after a retry
C16_Witness ==
    /\ \E p \in TransferCalls :
          /\ pc[p] = "done" /\ result[p].status = "ConcurrentModificationError"
          /\ hist[p].attempts = MAX_RETRY_ATTEMPTS
    /\ \E q \in TransferCalls :
          /\ pc[q] = "done" /\ result[q].status # "ConcurrentModificationError"
          /\ hist[q].attempts >= 2

\* ----------------------------------------------------------------------
\* C17: every attempt works on its own fetch. The wallets an attempt holds
\* are the ones the store held when that attempt was started; the source
\* update it got accepted carried that balance less the amount and took the
\* version from that one to the next; and an InsufficientBalanceError reports
\* the balance stored when the failing attempt fetched.
SeenWallet(p, id) == IF id \in DOMAIN hist[p].seen THEN <<hist[p].seen[id]>> ELSE <<>>

C17_AttemptUsesOwnFetch ==
    \A p \in TransferCalls :
        hist[p].executed =>
          /\ pc[p] = "fetched" =>
                /\ loc[p].source = SeenWallet(p, req[p].source)
                /\ loc[p].target = SeenWallet(p, req[p].target)
          /\ pc[p] \in {"sourceUpdated", "rollback", "targetUpdated"} =>
                /\ loc[p].sourceOriginal = SeenWallet(p, req[p].source)
                /\ loc[p].targetOriginal = SeenWallet(p, req[p].target)
          /\ pc[p] = "sourceUpdated" =>
                /\ loc[p].source[1].balance =
                      hist[p].seen[req[p].source].balance - req[p].amount
                /\ loc[p].source[1].version = hist[p].seen[req[p].source].version + 1
          /\ (pc[p] = "done" /\ result[p].status = "InsufficientBalanceError") =>
                /\ result[p].info.available = hist[p].seen[req[p].source].balance
                /\ result[p].info.available < req[p].amount

\* a retry that found the source drained by the other call's deduction
C17_Witness ==
    \E p \in TransferCalls :
        /\ pc[p] = "done" /\ result[p].status = "InsufficientBalanceError"
        /\ hist[p].attempts >= 2
        /\ result[p].info.available < InitialBalance
        /\ result[p].info.available = wallets[req[p].source].balance

\* ----------------------------------------------------------------------
\* C18: termination. Under fair scheduling every call that has entered
\* eventually returns a result or an error.
C18_EveryCallReturns ==
    \A p \in Procs : (pc[p] # "idle") ~> (pc[p] = "done")

\* both calls have returned, one of them after retrying
C18_Witness ==
    /\ AllReturned
    /\ \E p \in TransferCalls : hist[p].attempts >= 2 /\ hist[p].conflicts >= 1

\* ----------------------------------------------------------------------
\* C19: self-transfer rejection. transferFunds with the source as target and
\* a valid amount ends at once in SameWalletTransferError: the step changes
\* no stored wallet, appends no transaction, leaves the idempotency cache
\* and its timers as they were, and the operation is not run.
C19_SelfTransferRejected ==
    [][\A p \in Procs, w \in WalletIds, a \in Amounts, k \in Keys :
          transferFunds(p, w, w, a, k)
          => /\ pc'[p] = "done"
             /\ result'[p].status = "SameWalletTransferError"
             /\ wallets' = wallets
             /\ txLog' = txLog
             /\ cache' = cache /\ timers' = timers
             /\ ~hist'[p].executed
             /\ hashOf(req'[p]) \notin DOMAIN cache']_vars

\* a self-transfer of a wallet that exists and was funded before, refused
C19_Witness ==
    \E p \in TransferCalls :
        /\ req[p].source = req[p].target
        /\ req[p].amount \in Amounts
        /\ result[p].status = "SameWalletTransferError"
        /\ req[p].source \in DOMAIN wallets
        /\ nUpdates[req[p].source] = 1
        /\ wallets[req[p].source].balance > InitialBalance
        /\ cache # <<>>

\* ----------------------------------------------------------------------
\* C20: insufficient balance. When the source an attempt fetched holds less
\* than the amount, the attempt's next step ends the call in
\* InsufficientBalanceError with required = the amount and available = the
\* fetched balance; no stored wallet changes, no transaction is appended,
\* nothing is cached and no retry follows.
Insufficient(p) ==
    /\ pc[p] = "fetched"
    /\ loc[p].source # <<>> /\ loc[p].target # <<>>
    /\ loc[p].source[1].balance < req[p].amount

C20_InsufficientBalance ==
    [][\A p \in Procs :
          (Insufficient(p) /\ executeTransfer_deductSource(p))
          => /\ pc'[p] = "done"
             /\ result'[p] = Err("InsufficientBalanceError", req[p].source,
                                 req[p].amount, loc[p].source[1].balance)
             /\ loc[p].source[1].balance = hist[p].seen[req[p].source].balance
             /\ wallets' = wallets
             /\ txLog' = txLog
             /\ cache' = cache /\ timers' = timers
             /\ hist'[p] = hist[p]]_vars

\* a first attempt refused for want of funds, both wallets as it found them
C20_Witness ==
    \E p \in TransferCalls :
        /\ pc[p] = "done" /\ result[p].status = "InsufficientBalanceError"
        /\ hist[p].attempts = 1 /\ hist[p].updates = 0 /\ hist[p].appends = 0
        /\ result[p].info.required = req[p].amount
        /\ result[p].info.available = wallets[req[p].source].balance
        /\ result[p].info.available < result[p].info.required
        /\ hashOf(req[p]) \notin DOMAIN cache

\* ----------------------------------------------------------------------
\* C21: unknown wallet. A transfer attempt whose fetch found the source or
\* the target missing ends the call in WalletNotFoundError naming the
\* missing id, the source when both are missing; a funding whose fetch found
\* no wallet ends in WalletNotFoundError naming its id.  The step changes no
\* stored wallet and appends no transaction, and the call has made no store
\* update and no append at all.
FetchedMissing(p) ==
    \/ pc[p] = "fetched" /\ (loc[p].source = <<>> \/ loc[p].target = <<>>)
    \/ pc[p] = "fundFetched" /\ loc[p].target = <<>>

MissingId(p) ==
    IF req[p].op = "TRANSFER_FUNDS" /\ req[p].source \notin DOMAIN hist[p].seen
    THEN req[p].source
    ELSE req[p].target

C21_UnknownWallet ==
    [][\A p \in Procs :
          (FetchedMissing(p) /\ (executeTransfer_deductSource(p) \/ executeFunding_update(p)))
          => /\ MissingId(p) \notin DOMAIN hist[p].seen
             /\ pc'[p] = "done"
             /\ result'[p] = Err("WalletNotFoundError", MissingId(p), 0, 0)
             /\ wallets' = wallets
             /\ txLog' = txLog
             /\ hist'[p].updates = 0 /\ hist'[p].appends = 0]_vars

\* a transfer between two ids that were both missing failed naming the
\* source, and a funding of an unknown id failed, nothing else having run
C21_Witness ==
    /\ \E p \in TransferCalls :
          /\ result[p] = Err("WalletNotFoundError", req[p].source, 0, 0)
          /\ req[p].source # req[p].target
          /\ DOMAIN hist[p].seen = {}
    /\ \E p \in Calls :
          /\ req[p].op = "FUND_WALLET"
          /\ result[p] = Err("WalletNotFoundError", req[p].target, 0, 0)
    /\ wallets = [id \in InitialWallets |-> Wallet(id, InitialBalance)]
    /\ txLog = <<>>

\* ----------------------------------------------------------------------
\* C22: amount validation. A fundWallet or transferFunds call whose amount is
\* not positive, exceeds MAX_AMOUNT or has more than two fractional digits
\* has failed with InvalidTransactionAmountError as soon as it was made: the
\* wrapped operation was not run, the call updated no wallet and appended no
\* transaction, and no idempotency record exists for the request.
InvalidAmount(amount) ==
    \/ amount <= 0
    \/ exceedsMaxAmount(amount)
    \/ amount % Cent # 0

C22_InvalidAmountRejected ==
    \A p \in Calls :
        (Idempotent(p) /\ InvalidAmount(req[p].amount))
        => /\ pc[p] = "done"
           /\ result[p].status = "InvalidTransactionAmountError"
           /\ ~hist[p].executed
           /\ hist[p].updates = 0 /\ hist[p].appends = 0
           /\ hashOf(req[p]) \notin DOMAIN cache

\* ----------------------------------------------------------------------
\* C23: successful funding. The accepted update of a funding raises the
\* stored balance by exactly the amount and the stored version by one and
\* touches no other wallet; its next step appends one COMPLETED FUNDING
\* transaction with null source, the wallet as target and the amount; and
\* when the call returns it has made exactly one update and one append and
\* returns the wallet with the balance and version its update stored.
FundingTransaction(p) ==
    [type |-> "FUNDING", sourceWalletId |-> NullId, targetWalletId |-> req[p].target,
     amount |-> req[p].amount, status |-> "COMPLETED"]

C23_FundingSucceeds ==
    [][\A p \in Procs :
          /\ (executeFunding_update(p) /\ pc'[p] = "fundUpdated")
             => wallets' = [wallets EXCEPT
                              ![req[p].target].balance = @ + req[p].amount,
                              ![req[p].target].version = @ + 1]
          /\ executeFunding_createTransaction(p)
             => txLog' = Append(txLog, FundingTransaction(p))
          /\ (req[p].op = "FUND_WALLET" /\ processWithIdempotency_return(p))
             => /\ result'[p].status = "ok"
                /\ hist[p].updates = 1 /\ hist[p].appends = 1
                /\ result'[p].wallets =
                      << [id |-> req[p].target,
                          balance |-> hist[p].seen[req[p].target].balance + req[p].amount,
                          version |-> hist[p].seen[req[p].target].version + 1] >>]_vars

\* a funding of 0.40 returned the balance and version it stored, while
\* another funding of the same wallet has since moved the store on
C23_Witness ==
    \E p \in Calls :
        /\ req[p].op = "FUND_WALLET" /\ pc[p] = "done"
        /\ result[p].status = "ok" /\ hist[p].executed
        /\ req[p].amount = 40 * Cent
        /\ result[p].wallets[1].balance = InitialBalance + 40 * Cent
        /\ result[p].wallets[1].version = 2
        /\ wallets[req[p].target].version = 3
        /\ wallets[req[p].target].balance = InitialBalance + 100 * Cent
        /\ Len(txLog) = 2

\* ----------------------------------------------------------------------
\* C24: failed funding. The step in which a fundWallet call ends in an error
\* changes no stored wallet and appends no transaction, and the call has
\* made no store update and no append before it; a funding that has
\* returned made as many appends as updates (both or neither).
FundingFails(p) ==
    /\ req'[p].op = "FUND_WALLET"
    /\ pc[p] # "done" /\ pc'[p] = "done"
    /\ result'[p].status # "ok"

C25_StoredCopiesIndependent ==
    [][(wallets' # wallets) => lastCall'.op \in {"create", "update", "delete"}]_vars

\* the object that was passed to create now differs from the stored wallet
\* in balance and in version
C25_Witness ==
    \E h \in RefHandles, id \in RefIdSet :
        /\ lastCall.op \in {"setBalance", "setVersion"}
        /\ hand[h].from = "passed"
        /\ hand[h].objs[id] # 0
        /\ id \in DOMAIN wallets
        /\ wallets[id] = Wallet(id, 100 * Cent)
        /\ heap[hand[h].objs[id]].balance = 150 * Cent
        /\ heap[hand[h].objs[id]].version = 2

C27_FindByIds ==
    [][\A h \in RefHandles, ids \in RefIdLists :
          Ref_findByIds(h, ids)
          => LET keys == {ids[i] : i \in 1..Len(ids)} \cap DOMAIN wallets
             IN /\ {id \in RefIdSet : hand'[h].objs[id] # 0} = keys
                /\ \A id \in keys :
                      heap'[hand'[h].objs[id]] =
                          [id |-> id, balance |-> wallets[id].balance,
                           version |-> wallets[id].version]
                /\ wallets' = wallets]_vars

\* a request for a stored, updated wallet and one that is not stored
C27_Witness ==
    \E h \in RefHandles :
        /\ lastCall.op = "findByIds" /\ lastCall.arg = <<"w2", "w1">>
        /\ DOMAIN wallets = {"w1"}
        /\ wallets["w1"].balance = 150 * Cent /\ wallets["w1"].version = 2
        /\ hand[h].objs["w2"] = 0
        /\ heap[hand[h].objs["w1"]] = wallets["w1"]

\* ======================================================================
\* Claims about transaction references
Generated == transactionCounter' # transactionCounter /\ issued' # issued

IsDigit(c) == \E i \in 1..Len(DigitChars) : DigitChars[i] = c
IsUpperAlnum(c) == IsDigit(c) \/ \E i \in 1..Len(UpperChars) : UpperChars[i] = c

\* /^TXN-\d{14}-\d{3}-[A-Z0-9]{4}$/
MatchesFormat(ref) ==
    /\ Len(ref) = 27
    /\ SubSeq(ref, 1, 4) = <<"T", "X", "N", "-">>
    /\ \A i \in 5..18 : IsDigit(ref[i])
    /\ ref[19] = "-"
    /\ \A i \in 20..22 : IsDigit(ref[i])
    /\ ref[23] = "-"
    /\ \A i \in 24..27 : IsUpperAlnum(ref[i])

\* a sorts before b in the order of String.prototype.localeCompare / '<' on
\* the characters a reference is made of
RECURSIVE LexLess(_, _)
LexLess(a, b) ==
    IF b = <<>> THEN FALSE
    ELSE IF a = <<>> THEN TRUE
    ELSE IF Head(a) = Head(b) THEN LexLess(Tail(a), Tail(b))
    ELSE CharCode(Head(a)) < CharCode(Head(b))

\* C28: every generated reference has the form TXN-, 14 digits, '-', exactly
\* three digits of counter, '-', four uppercase alphanumerics, for every call
\* including those around the wrap of the counter at 1000.
C28_ReferenceFormat ==
    (issued.first # <<>> => MatchesFormat(issued.first))
    /\ (issued.last # <<>> => MatchesFormat(issued.last))

\* C29: a reference generated earlier sorts lexicographically before one
\* generated later, in different seconds as well as within one second and
\* across a wrap of the counter.
C29_ReferencesSortChronologically ==
    [][(Generated /\ issued.last # <<>>)
          => /\ LexLess(issued.last, issued'.last)
             /\ LexLess(issued.first, issued'.last)]_vars

\* C30: no two transactions appended to the log carry the same reference,
\* however many are created, more than 1000 within one second included.
C30_ReferencesUnique ==
    [][(Generated /\ issued.last # <<>>)
          => /\ issued'.last # issued.last
             /\ issued'.last # issued.first]_vars

\* ======================================================================
\* Claims about the transaction log
IdsOf(log) == {log[i].id : i \in 1..Len(log)}

\* C31: create of a transaction whose id is already in the log fails and
\* leaves the log and the id index unchanged; the log never holds two
\* transactions with the same id.
C31_CreateRejectsKnownId ==
    [][(lastCall'.op = "log.create" /\ (lastCall' # lastCall \/ txLog' # txLog))
          => /\ (lastCall'.arg.id \in IdsOf(txLog)
                    => txLog' = txLog /\ transactionIndex' = transactionIndex)
             /\ \A i, j \in 1..Len(txLog') : txLog'[i].id = txLog'[j].id => i = j]_vars

\* ----------------------------------------------------------------------
\* the positions of the log whose transaction has wallet w as source or target
Involving(w) == {j \in 1..Len(txLog) :
                    txLog[j].sourceWalletId = w \/ txLog[j].targetWalletId = w}
PositionOf(id) == CHOOSE j \in 1..Len(txLog) : txLog[j].id = id
\* a returned object is the logged transaction at position j (its timestamps
\* are those of the copy)
SameTransaction(tx, j) ==
    /\ tx.id = txLog[j].id /\ tx.type = txLog[j].type /\ tx.amount = txLog[j].amount
    /\ tx.sourceWalletId = txLog[j].sourceWalletId
    /\ tx.targetWalletId = txLog[j].targetWalletId
    /\ tx.status = txLog[j].status
ReturnedPositions(r) == {PositionOf(r[i].id) : i \in 1..Len(r)}
Unpaged == lastCall.arg.limit = Unset /\ lastCall.arg.offset = Unset

\* C32: findByWalletId(w) without pagination returns exactly the logged
\* transactions whose source or target is w, each once, and
\* countByWalletId(w) is the number of those transactions.
C32_FindByWalletIdComplete ==
    /\ (lastCall.op = "log.findByWalletId" /\ Unpaged)
          => /\ \A i \in 1..Len(lastCall.ret) :
                   /\ lastCall.ret[i].id \in IdsOf(txLog)
                   /\ SameTransaction(lastCall.ret[i], PositionOf(lastCall.ret[i].id))
             /\ ReturnedPositions(lastCall.ret) = Involving(lastCall.arg.walletId)
             /\ Len(lastCall.ret) = Cardinality(Involving(lastCall.arg.walletId))
    /\ lastCall.op = "log.countByWalletId"
          => lastCall.ret = Cardinality(Involving(lastCall.arg))

C32_Witness ==
    /\ lastCall.op = "log.findByWalletId" /\ Unpaged
    /\ Len(txLog) = 3 /\ Len(lastCall.ret) = 2
    /\ \E i \in 1..2 : lastCall.ret[i].sourceWalletId = lastCall.arg.walletId
    /\ \E i \in 1..2 : lastCall.ret[i].targetWalletId = lastCall.arg.walletId

\* the transaction at position i of the log is strictly newer than the one at j
Newer(i, j) == txLog[i].createdAt > txLog[j].createdAt
\* position i may stand before position j in the requested order
MayPrecede(i, j, sortOrder) == IF sortOrder = "asc" THEN ~Newer(i, j) ELSE ~Newer(j, i)
NatMin(a, b) == IF a < b THEN a ELSE b
NatMax(a, b) == IF a > b THEN a ELSE b

\* r is the page (offset, limit) of the transactions at positions F in some
\* order by creation time: `skipped` elements come before it and the rest after
IsPage(r, F, limit, offset, sortOrder) ==
    LET n == Cardinality(F)
        skip == NatMin(offset, n)
        length == IF limit = Unset THEN n - skip ELSE NatMin(limit, n - skip)
        P == ReturnedPositions(r)
    IN  /\ Len(r) = length
        /\ \A i \in 1..Len(r) : r[i].id \in IdsOf(txLog)
        /\ \A i \in 1..Len(r) : SameTransaction(r[i], PositionOf(r[i].id))
        /\ P \subseteq F /\ Cardinality(P) = length
        /\ \A i \in 1..(Len(r) - 1) :
              MayPrecede(PositionOf(r[i].id), PositionOf(r[i + 1].id), sortOrder)
        /\ \E skipped \in SUBSET (F \ P) :
              /\ Cardinality(skipped) = skip
              /\ \A b \in skipped, p \in P : MayPrecede(b, p, sortOrder)
              /\ \A b \in skipped, c \in F \ (P \cup skipped) : MayPrecede(b, c, sortOrder)
              /\ \A p \in P, c \in F \ (P \cup skipped) : MayPrecede(p, c, sortOrder)

\* C33: findByWalletId(w, {limit, offset, sortOrder}) returns exactly the
\* elements at positions offset .. offset+limit-1 of w's transactions ordered
\* by creation time, newest first by default and oldest first for 'asc'; a
\* limit beyond the count returns all that remain, an offset beyond the count
\* returns the empty list.
C33_FindByWalletIdPage ==
    lastCall.op = "log.findByWalletId"
       => IsPage(lastCall.ret, Involving(lastCall.arg.walletId), lastCall.arg.limit,
                 IF lastCall.arg.offset = Unset THEN 0 ELSE lastCall.arg.offset,
                 IF lastCall.arg.sortOrder = Undefined THEN "desc"
                 ELSE lastCall.arg.sortOrder)

\* the second newest of three transactions of different times is returned
C33_Witness ==
    /\ lastCall.op = "log.findByWalletId"
    /\ lastCall.arg.limit = 1 /\ lastCall.arg.offset = 1
    /\ lastCall.arg.sortOrder = Undefined
    /\ Cardinality(Involving(lastCall.arg.walletId)) = 3
    /\ Newer(3, 2) /\ Newer(2, 1)
    /\ Len(lastCall.ret) = 1 /\ lastCall.ret[1].id = txLog[2].id

\* C34: findByType(type, {offset: o}) and findAll({offset: o}) without a
\* limit return the matching transactions without their first o elements, as
\* findByWalletId does.
C34_OffsetWithoutLimit ==
    /\ (lastCall.op = "log.findByType" /\ lastCall.arg.limit = Unset
           /\ lastCall.arg.offset # Unset)
          => Len(lastCall.ret) =
                NatMax(0, Cardinality({j \in 1..Len(txLog) : txLog[j].type = lastCall.arg.type})
                          - lastCall.arg.offset)
    /\ (lastCall.op = "log.findAll" /\ lastCall.arg.limit = Unset
           /\ lastCall.arg.offset # Unset)
          => Len(lastCall.ret) = NatMax(0, Len(txLog) - lastCall.arg.offset)

\* ======================================================================
\* Claims about the wallets' fixed fields
\* the fields of a wallet that are fixed at creation
Fixed(w) == <<w.id, w.currency, w.createdAt>>

\* C35: for every stored wallet, id, currency and creation timestamp are the
\* same in every later read (findById, findAll) as at creation, across reads
\* and successful updates; only balance, version and update timestamp change.
C35_FixedFields ==
    [][/\ \A id \in (DOMAIN wallets) \cap (DOMAIN wallets') :
             Fixed(wallets'[id]) = Fixed(wallets[id])
       /\ (lastCall' # lastCall /\ lastCall'.op = "findById")
             => Fixed(lastCall'.ret) = Fixed(wallets[lastCall'.ret.id])
       /\ (lastCall' # lastCall /\ lastCall'.op = "findAll")
             => \A id \in DOMAIN wallets : Fixed(lastCall'.ret[id]) = Fixed(wallets[id])]_vars

\* ======================================================================
\* Claims about the log the service writes
\* C36: in every reachable state every transaction in the log has
\* amount > 0 and status COMPLETED, a null source if it is a FUNDING and a
\* non-null source different from its target if it is a TRANSFER.
C36_LoggedTransactionsWellFormed ==
    \A i \in 1..Len(txLog) :
        /\ txLog[i].amount > 0
        /\ txLog[i].status = "COMPLETED"
        /\ txLog[i].type \in {"FUNDING", "TRANSFER"}
        /\ txLog[i].type = "FUNDING" => txLog[i].sourceWalletId = NullId
        /\ txLog[i].type = "TRANSFER"
              => /\ txLog[i].sourceWalletId # NullId
                 /\ txLog[i].sourceWalletId # txLog[i].targetWalletId

\* a transfer is in the log and a transfer to the same wallet was turned away
C36_Witness ==
    /\ \E i \in 1..Len(txLog) : txLog[i].type = "TRANSFER"
    /\ \E p \in Procs : result[p].status = "SameWalletTransferError"

\* ----------------------------------------------------------------------
\* what a stored transaction says, its metadata read through to the object
\* nested in it
Content(tx, objects) ==
    <<tx.id, tx.type, tx.sourceWalletId, tx.targetWalletId, tx.amount,
      IF tx.metadata = NoMetadata THEN <<>>
      ELSE <<tx.metadata.source, objects[tx.metadata.details]>>>>

\* C37: the log is append-only and isolated from its callers: no logged
\* transaction is removed, and its id, type, wallet ids, amount and metadata
\* never change, whatever a caller does to a transaction object it passed to
\* create or was returned, changes to nested metadata included.
C37_LogIsolated ==
    [][/\ Len(txLog') >= Len(txLog)
       /\ \A i \in 1..Len(txLog) :
             Content(txLog'[i], nested') = Content(txLog[i], nested)]_vars

\* ----------------------------------------------------------------------
\* the amounts of the logged transactions at positions 1..n that satisfy the
\* test: crediting wallet id, or a transfer debiting it
RECURSIVE Credits(_, _)
Credits(id, n) ==
    IF n = 0 THEN 0
    ELSE Credits(id, n - 1)
         + (IF txLog[n].targetWalletId = id THEN txLog[n].amount ELSE 0)

RECURSIVE Debits(_, _)
Debits(id, n) ==
    IF n = 0 THEN 0
    ELSE Debits(id, n - 1)
         + (IF txLog[n].type = "TRANSFER" /\ txLog[n].sourceWalletId = id
            THEN txLog[n].amount ELSE 0)

\* the balance a wallet was created with
OpeningBalance(id) == IF id \in InitialWallets THEN InitialBalance ELSE 0

\* C38: ledger consistency. Whenever no operation is in flight, every
\* wallet's stored balance is its initial balance plus the amounts of the
\* logged transactions that target it minus the amounts of the logged
\* TRANSFER transactions that have it as source.
C38_LedgerConsistent ==
    Quiescent =>
      \A id \in DOMAIN wallets :
         wallets[id].balance =
            OpeningBalance(id) + Credits(id, Len(txLog)) - Debits(id, Len(txLog))

\* ----------------------------------------------------------------------
\* every call issued so far is a funding of wallet w, each under its own key
FundingsOf(w) ==
    /\ \A p \in Calls : pc[p] # "idle" => req[p].op = "FUND_WALLET" /\ req[p].target = w
    /\ \A p, q \in Calls : (p # q /\ pc[p] # "idle" /\ pc[q] # "idle")
                              => req[p].key # req[q].key

\* call p is about to update with a version that is no longer the stored one
LostRace(p) ==
    /\ pc[p] = "fundFetched"
    /\ loc[p].target # <<>>
    /\ wallets[loc[p].target[1].id].version # loc[p].target[1].version

\* C39: no lost update on funding. For concurrent fundWallet calls with
\* distinct keys on one wallet, once all have returned the stored balance is
\* the initial balance plus the amounts of the calls that returned success; a
\* call that lost the version race returns ConcurrentModificationError in
\* that step, without another attempt and without changing the balance.
C39_NoLostFunding ==
    [][FundingsOf("w1")' =>
         /\ AllReturned' =>
               wallets'["w1"].balance =
                  InitialBalance + SumAmounts({p \in Calls : result'[p].status = "ok"})
         /\ \A p \in Calls :
               (LostRace(p) /\ pc'[p] # pc[p])
                  => /\ pc'[p] = "done"
                     /\ result'[p].status = "ConcurrentModificationError"
                     /\ wallets' = wallets /\ txLog' = txLog]_vars

\* two fundings of w1 read version 1; one succeeded, the other lost the race
C39_Witness ==
    /\ FundingsOf("w1") /\ AllReturned
    /\ \E p, q \in Calls :
          /\ result[p].status = "ok"
          /\ result[q].status = "ConcurrentModificationError"
          /\ wallets["w1"].balance = InitialBalance + req[p].amount
          /\ wallets["w1"].version = 2

====
